---- MODULE Spec2Model ----
(***************************************************************************)
(* A model of digtask's core: the token expander (token.rs), the variable  *)
(* environment (core/vars.rs), the run context and its forcing states      *)
(* (core/run_context.rs), the run gates (core/gate.rs), the sub-task step  *)
(* (core/step/task_step.rs), the task engine (core/task.rs) and the        *)
(* executor's permit pool as used by the command steps, the test gates and *)
(* the task engine (core/step/basic_step.rs, core/step/parallel_step.rs).  *)
(*                                                                         *)
(* Strings are sequences of one-character strings, so that parsing is      *)
(* modelled character by character.  JSON values are tagged records.       *)
(***************************************************************************)
EXTENDS Integers, Sequences, FiniteSets, TLC

VARIABLES
    \* token expander session (token.rs)
    input,       \* the string handed to evaluate_tokens
    nfrag,       \* number of fragments typed into input so far
    var_stack,   \* the variable stack handed to evaluate_tokens
    output,      \* evaluate_tokens' result (NoOutput before the call)
    \* variable environment session (core/vars.rs, core/step/task_step.rs)
    E,           \* the current VariableSet
    call,        \* the last operation applied: its name, arguments, E before
    ret,         \* what the last operation returned
    \* executor session (core/executor.rs, core/task.rs, core/step/*.rs)
    processes,   \* N: the size the permit pool was created with
    permits,     \* permits currently available in executor.limiter
    fut,         \* the futures of the run: id -> record
    spawned,     \* number of external processes the run has asked for
    \* run context session (core/run_context.rs)
    run_context, \* the RunContext of the task being prepared
    lineage      \* the derivations that led to it: <<parent, behaviour>>, root first

tokVars == <<input, nfrag, var_stack, output>>
envVars == <<E, call, ret>>
exVars  == <<processes, permits, fut, spawned>>
ctxVars == <<run_context, lineage>>
vars    == <<input, nfrag, var_stack, output, E, call, ret,
             processes, permits, fut, spawned, run_context, lineage>>

-----------------------------------------------------------------------------
(* JSON values (serde_json::Value) *)

JNull    == [t |-> "null"]
JBool(b) == [t |-> "bool", b |-> b]
JNum(n)  == [t |-> "num", n |-> n]
JStr(s)  == [t |-> "str", s |-> s]
JArr(a)  == [t |-> "arr", a |-> a]
JObj(o)  == [t |-> "obj", o |-> o]   \* o: sequence of <<key, value>> pairs

\* The Err side of a Result.
Error(kind) == [t |-> "error", kind |-> kind]
IsError(r)  == "t" \in DOMAIN r /\ r.t = "error"

NoOutput == [t |-> "none"]

\* Option::None
None == [t |-> "none"]

\* A let binding: body applied to the value x.
With(x, Body(_)) == Body(x)

\* The ? operator on a Result: an error is returned at once, any other value
\* is handed on.
Try(r, Then(_)) == IF IsError(r) THEN r ELSE Then(r)

-----------------------------------------------------------------------------
(* Strings *)

StartsWith(s, p) == Len(s) >= Len(p) /\ SubSeq(s, 1, Len(p)) = p
Drop(s, n)       == SubSeq(s, n + 1, Len(s))
Take(s, n)       == SubSeq(s, 1, n)

RECURSIVE Concat(_)
Concat(ss) == IF ss = <<>> THEN <<>> ELSE Head(ss) \o Concat(Tail(ss))

\* Whether p occurs in s.
RECURSIVE Contains(_, _)
Contains(s, p) ==
    IF Len(s) < Len(p) THEN FALSE
    ELSE StartsWith(s, p) \/ Contains(Tail(s), p)

Whitespace == {" "}

\* str::trim
RECURSIVE TrimStart(_)
TrimStart(s) ==
    IF s # <<>> /\ Head(s) \in Whitespace THEN TrimStart(Tail(s)) ELSE s

RECURSIVE TrimEnd(_)
TrimEnd(s) ==
    IF s # <<>> /\ s[Len(s)] \in Whitespace THEN TrimEnd(Take(s, Len(s) - 1)) ELSE s

Trim(s) == TrimEnd(TrimStart(s))

\* The decimal digits of a natural number.
Digit(d) == CASE d = 0 -> "0" [] d = 1 -> "1" [] d = 2 -> "2" [] d = 3 -> "3"
              [] d = 4 -> "4" [] d = 5 -> "5" [] d = 6 -> "6" [] d = 7 -> "7"
              [] d = 8 -> "8" [] d = 9 -> "9"

RECURSIVE Digits(_)
Digits(n) == IF n < 10 THEN <<Digit(n)>> ELSE Digits(n \div 10) \o <<Digit(n % 10)>>

\* A JSON string literal: quoted, with the quote and the backslash escaped.
RECURSIVE Escaped(_)
Escaped(s) ==
    IF s = <<>> THEN <<>>
    ELSE (IF Head(s) \in {"\"", "\\"} THEN <<"\\", Head(s)>> ELSE <<Head(s)>>)
         \o Escaped(Tail(s))

Quoted(s) == <<"\"">> \o Escaped(s) \o <<"\"">>

\* serde_json::to_string
RECURSIVE to_string(_)
RECURSIVE JoinValues(_)
RECURSIVE JoinMembers(_)
JoinValues(a) ==
    IF a = <<>> THEN <<>>
    ELSE to_string(Head(a))
         \o (IF Len(a) > 1 THEN <<",">> ELSE <<>>) \o JoinValues(Tail(a))
JoinMembers(o) ==
    IF o = <<>> THEN <<>>
    ELSE Quoted(Head(o)[1]) \o <<":">> \o to_string(Head(o)[2])
         \o (IF Len(o) > 1 THEN <<",">> ELSE <<>>) \o JoinMembers(Tail(o))
to_string(v) ==
    CASE v.t = "null" -> <<"n", "u", "l", "l">>
      [] v.t = "bool" -> IF v.b THEN <<"t", "r", "u", "e">>
                                ELSE <<"f", "a", "l", "s", "e">>
      [] v.t = "num"  -> Digits(v.n)
      [] v.t = "str"  -> Quoted(v.s)
      [] v.t = "arr"  -> <<"[">> \o JoinValues(v.a) \o <<"]">>
      [] v.t = "obj"  -> <<"{">> \o JoinMembers(v.o) \o <<"}">>

-----------------------------------------------------------------------------
(* The token parser (token.rs) *)

TokenChars ==
    { "a", "b", "c", "d", "e", "f", "g", "h", "i", "j", "k", "l", "m",
      "n", "o", "p", "q", "r", "s", "t", "u", "v", "w", "x", "y", "z",
      "A", "B", "C", "D", "E", "F", "G", "H", "I", "J", "K", "L", "M",
      "N", "O", "P", "Q", "R", "S", "T", "U", "V", "W", "X", "Y", "Z",
      "0", "1", "2", "3", "4", "5", "6", "7", "8", "9",
      ".", " ", "_", "-" }

is_control_char(c) == c = "{" \/ c = "/"

\* winnow's take_while / take_till: the length of the longest matching prefix.
RECURSIVE TakeWhileLen(_, _)
TakeWhileLen(s, set) ==
    IF s = <<>> \/ Head(s) \notin set THEN 0 ELSE 1 + TakeWhileLen(Tail(s), set)

RECURSIVE TakeTillControlLen(_)
TakeTillControlLen(s) ==
    IF s = <<>> \/ is_control_char(Head(s)) THEN 0 ELSE 1 + TakeTillControlLen(Tail(s))

\* winnow's take_until(0.., p): the offset of the first p in s, or -1.
RECURSIVE TakeUntilLen(_, _)
TakeUntilLen(s, p) ==
    IF Len(s) < Len(p) THEN -1
    ELSE IF StartsWith(s, p) THEN 0
    ELSE LET r == TakeUntilLen(Tail(s), p) IN IF r < 0 THEN -1 ELSE r + 1

Backtrack == [ok |-> FALSE]
Parsed(kind, text, rest) == [ok |-> TRUE, kind |-> kind, text |-> text, rest |-> rest]

parse_token(s) ==
    IF ~StartsWith(s, <<"{", "{">>) THEN Backtrack
    ELSE LET body  == Drop(s, 2)
             n     == TakeWhileLen(body, TokenChars)
             after == Drop(body, n)
         IN  IF n >= 1 /\ StartsWith(after, <<"}", "}">>)
             THEN Parsed("Token", Trim(Take(body, n)), Drop(after, 2))
             ELSE Backtrack

parse_comment(s) ==
    IF ~StartsWith(s, <<"/", "*">>) THEN Backtrack
    ELSE LET body == Drop(s, 2)
             n    == TakeUntilLen(body, <<"*", "/">>)
         IN  IF n >= 0
             THEN Parsed("Literal", Take(body, n), Drop(body, n + 2))
             ELSE Backtrack

\* A variant of parse_literal that returns the remainder taken after the first
\* character instead of re-slicing the stored input.
parse_literal_Remainder(s) ==
    IF s = <<>> THEN Backtrack
    ELSE LET total_length == 1 + TakeTillControlLen(Tail(s))
         IN  Parsed("Literal", SubSeq(s, 2, total_length), Drop(s, total_length))

parse_literal(s) ==
    IF s = <<>> THEN Backtrack
    ELSE LET total_length == 1 + TakeTillControlLen(Tail(s))
         IN  Parsed("Literal", Take(s, total_length), Drop(s, total_length))

\* winnow's alt: the first parser that does not backtrack.
alt(first, rest) == IF first.ok THEN first ELSE rest

\* A variant of parse_element without the comment alternative.
parse_element_NoComment(s) == alt(parse_token(s), parse_literal(s))

\* alt((parse_token, parse_comment, parse_literal))
parse_element(s) == alt(parse_token(s), alt(parse_comment(s), parse_literal(s)))

\* The elements of s, in order: records [kind, text].
RECURSIVE parse_all_elements(_)
parse_all_elements(s) ==
    IF s = <<>> THEN <<>>
    ELSE With(parse_element(s), LAMBDA element :
            <<[kind |-> element.kind, text |-> element.text]>>
            \o parse_all_elements(element.rest))

-----------------------------------------------------------------------------
(* Frames and the variable stack of token.rs (vars.rs) *)

EmptyFrame == <<>>
Bind(k, v) == k :> v

\* VariableMapStackTrait::get_key: the newest frame first.
RECURSIVE get_key(_, _)
get_key(stack, key) ==
    IF stack = <<>> THEN Error("unknown key")
    ELSE LET top == stack[Len(stack)]
         IN  IF key \in DOMAIN top THEN top[key]
             ELSE get_key(Take(stack, Len(stack) - 1), key)

-----------------------------------------------------------------------------
(* The token evaluator (token.rs) *)

\* A variant of ElementString that serializes string values like the others.
ElementString_Serialized(element, value) ==
    IF element.kind = "Literal" THEN element.text ELSE to_string(value)

\* The string pushed for one element of a string of several elements.
ElementString(element, value) ==
    IF element.kind = "Literal" THEN element.text
    ELSE IF value.t = "str" THEN value.s ELSE to_string(value)

\* The loop over the elements: the first failing lookup ends it with its error.
RECURSIVE BuildStringStack(_, _, _)
BuildStringStack(elements, look, string_stack) ==
    IF elements = <<>> THEN JStr(Concat(string_stack))
    ELSE LET element == Head(elements)
             value   == IF element.kind = "Token" THEN look[element.text] ELSE JNull
         IN  IF element.kind = "Token" /\ IsError(value) THEN value
             ELSE BuildStringStack(Tail(elements), look,
                                   Append(string_stack, ElementString(element, value)))

TokenKeys(elements) ==
    { elements[i].text : i \in { j \in DOMAIN elements : elements[j].kind = "Token" } }

\* A variant of EvaluateElements without the lone-element case: a lone token
\* is joined into a string like the tokens of a longer string.
EvaluateElements_AlwaysJoined(elements, look) ==
    IF Len(elements) = 0 THEN JNull ELSE BuildStringStack(elements, look, <<>>)

\* evaluate_tokens on parsed elements; look maps each token key to its lookup.
EvaluateElements(elements, look) ==
    CASE Len(elements) = 0 -> JNull
      [] Len(elements) = 1 ->
            IF elements[1].kind = "Token" THEN look[elements[1].text]
            ELSE JStr(elements[1].text)
      [] OTHER -> BuildStringStack(elements, look, <<>>)

evaluate_tokens(s, stack) ==
    With(parse_all_elements(s), LAMBDA elements :
        EvaluateElements(elements,
                         [k \in TokenKeys(elements) |-> get_key(stack, k)]))

-----------------------------------------------------------------------------
(* The token expander session: a string is typed fragment by fragment and  *)
(* then expanded against one of the sample variable stacks.                *)

MaxFrags == 3

KeyK == <<"k">>

Fragments ==
    { <<"{", "{", "k", "}", "}">>,
      <<"{", "{", " ", "k", " ", "}", "}">>,
      <<"{", "{", "u", "}", "}">>,
      <<"/", "*">>, <<"*", "/">>, <<"{", "{">>, <<"}", "}">>,
      <<"{">>, <<"/">>, <<" ">>, <<"k">> }

SampleValues ==
    { JNull, JBool(TRUE), JNum(17), JStr(<<"v">>),
      JArr(<<JNum(1), JStr(<<"v">>)>>),
      JObj(<<<< <<"m">>, JNum(2) >>>>) }

SampleStacks ==
    { <<>> } \cup { <<Bind(KeyK, v)>> : v \in SampleValues }
             \cup { <<Bind(KeyK, JNum(17)), Bind(KeyK, JStr(<<"v">>))>> }

TokInit == input = <<>> /\ nfrag = 0 /\ var_stack = <<>> /\ output = NoOutput
EnvIdle == E = [stacked_vars |-> <<>>, local_vars |-> EmptyFrame]
           /\ call = [op |-> "new"] /\ ret = NoOutput
ExIdle  == processes = 1 /\ permits = 1 /\ fut = <<>> /\ spawned = 0
CtxIdle == run_context = None /\ lineage = <<>>

TypeFragment ==
    /\ output = NoOutput
    /\ nfrag < MaxFrags
    /\ \E f \in Fragments : input' = input \o f
    /\ nfrag' = nfrag + 1
    /\ UNCHANGED <<var_stack, output, envVars, exVars, ctxVars>>

Evaluate ==
    /\ output = NoOutput
    /\ \E stack \in SampleStacks :
          /\ var_stack' = stack
          /\ output' = evaluate_tokens(input, stack)
    /\ UNCHANGED <<input, nfrag, envVars, exVars, ctxVars>>

InitToken == TokInit /\ EnvIdle /\ ExIdle /\ CtxIdle
NextToken == TypeFragment \/ Evaluate
SpecToken == InitToken /\ [][NextToken]_vars

-----------------------------------------------------------------------------
(* Properties of the token expander, stated without the parser.            *)

Evaluated == output # NoOutput

\* The frames of a stack that bind key, and the binding of the newest one.
BindingFrames(stack, key) == { i \in DOMAIN stack : key \in DOMAIN stack[i] }
IsBound(stack, key)       == BindingFrames(stack, key) # {}
NewestBinding(stack, key) ==
    stack[CHOOSE i \in BindingFrames(stack, key) :
              \A j \in BindingFrames(stack, key) : j <= i][key]

Pads == { <<>>, <<" ">> }
BareTokenStrings(key) ==
    { <<"{", "{">> \o l \o key \o r \o <<"}", "}">> : l \in Pads, r \in Pads }

\* C7: expanding a string that is exactly one token {{k}}, with or without
\* interior whitespace, where k is bound to v, returns v itself (the same
\* JSON value, hence the same JSON type), not its string form.
C7_BareTokenKeepsValue ==
    (Evaluated /\ input \in BareTokenStrings(KeyK) /\ IsBound(var_stack, KeyK))
        => output = NewestBinding(var_stack, KeyK)

\* A bare token with interior whitespace was expanded to an array.
C7_Witness ==
    /\ Evaluated
    /\ input = <<"{", "{", " ", "k", " ", "}", "}">>
    /\ IsBound(var_stack, KeyK)
    /\ output.t = "arr"

NoTokenOpen(s)   == ~Contains(s, <<"{", "{">>)
NoCommentOpen(s) == ~Contains(s, <<"/", "*">>)

\* C8 (as amended): for any non-empty string s containing no "{{" and no
\* "/*", expanding s yields the JSON string s; the empty string expands to
\* JSON null.
C8_PlainStringIsItself ==
    (Evaluated /\ NoTokenOpen(input) /\ NoCommentOpen(input))
        => output = (IF input = <<>> THEN JNull ELSE JStr(input))

\* C8 as stated: every such string, the empty one included, expands to the
\* JSON string s.
C8_AsStated ==
    (Evaluated /\ NoTokenOpen(input) /\ NoCommentOpen(input))
        => output = JStr(input)

\* A string of several elements with lone control characters was expanded.
C8_Witness ==
    /\ Evaluated
    /\ input = <<"{", "k", "/">>
    /\ output = JStr(input)

\* The strings lit /* s */ : a literal without control characters (possibly
\* empty) followed by one comment that ends the string.
IsLiteralThenComment(s, n) ==
    /\ n \in 0..(Len(s) - 4)
    /\ \A i \in 1..n : ~is_control_char(s[i])
    /\ SubSeq(s, n + 1, n + 2) = <<"/", "*">>
    /\ SubSeq(s, Len(s) - 1, Len(s)) = <<"*", "/">>
    /\ ~Contains(SubSeq(s, n + 3, Len(s) - 2), <<"*", "/">>)

\* C9: the interior of a comment is emitted verbatim and no token inside it
\* is looked up: a string lit /* s */ expands to the JSON string lit s under
\* every variable stack; in particular /*{{k}}*/ expands to the JSON string
\* {{k}} whether or not k is bound.
C9_CommentIsVerbatim ==
    Evaluated =>
        \A n \in 0..Len(input) :
            IsLiteralThenComment(input, n)
                => output = JStr(Take(input, n) \o SubSeq(input, n + 3, Len(input) - 2))

\* /*{{k}}*/ was expanded with k unbound.
C9_Witness ==
    /\ Evaluated
    /\ input = <<"/", "*", "{", "{", "k", "}", "}", "*", "/">>
    /\ ~IsBound(var_stack, KeyK)
    /\ output = JStr(<<"{", "{", "k", "}", "}">>)

\* The string form of element i of a parsed string.
Piece(elements, stack, i) ==
    IF elements[i].kind = "Literal" THEN elements[i].text
    ELSE LET v == NewestBinding(stack, elements[i].text)
         IN  IF v.t = "str" THEN v.s ELSE to_string(v)

\* C10: a string of two or more elements expands to the JSON string that
\* concatenates, in order, every literal as it is and every token's value in
\* string form (a string raw, any other value JSON-serialized); if a token
\* names a key bound in no frame the expansion is an error, not a string.
C10_ConcatenatesInOrder ==
    LET elements == parse_all_elements(input) IN
    (Evaluated /\ Len(elements) >= 2) =>
        IF \E k \in TokenKeys(elements) : ~IsBound(var_stack, k)
        THEN IsError(output)
        ELSE output = JStr(Concat([i \in DOMAIN elements |->
                                       Piece(elements, var_stack, i)]))

\* A token bound to an array was expanded between two literals.
C10_Witness ==
    /\ Evaluated
    /\ input = <<"k", "{", "{", "k", "}", "}", "/">>
    /\ IsBound(var_stack, KeyK)
    /\ NewestBinding(var_stack, KeyK).t = "arr"
    /\ output.t = "str"

-----------------------------------------------------------------------------
(* The variable environment (core/vars.rs) *)

\* VariableSet::new
VariableSet_new == [stacked_vars |-> <<>>, local_vars |-> EmptyFrame]

get_from_locals(vs, key) ==
    IF key \in DOMAIN vs.local_vars THEN vs.local_vars[key] ELSE None

\* A variant of get_from_parent that looks through every stacked frame, the
\* newest first.
RECURSIVE get_from_parent_AnyAncestor(_, _)
get_from_parent_AnyAncestor(vs, key) ==
    IF vs.stacked_vars = <<>> THEN None
    ELSE LET parent == vs.stacked_vars[Len(vs.stacked_vars)]
         IN  IF key \in DOMAIN parent THEN parent[key]
             ELSE get_from_parent_AnyAncestor(
                     [vs EXCEPT !.stacked_vars = Take(@, Len(@) - 1)], key)

\* VariableSet::get_from_parent
get_from_parent(vs, key) ==
    IF vs.stacked_vars = <<>> THEN None
    ELSE LET parent == vs.stacked_vars[Len(vs.stacked_vars)]
         IN  IF key \in DOMAIN parent THEN parent[key] ELSE None

\* A variant of the loop that walks stacked_vars from the oldest frame.
RECURSIVE GetFromStacked_OldestFirst(_, _)
GetFromStacked_OldestFirst(stacked, key) ==
    IF stacked = <<>> THEN Error("unknown key")
    ELSE IF key \in DOMAIN Head(stacked) THEN Head(stacked)[key]
         ELSE GetFromStacked_OldestFirst(Tail(stacked), key)

\* The loop of VariableSet::get over stacked_vars.iter().rev().
RECURSIVE GetFromStacked(_, _)
GetFromStacked(stacked, key) ==
    IF stacked = <<>> THEN Error("unknown key")
    ELSE LET frame == stacked[Len(stacked)]
         IN  IF key \in DOMAIN frame THEN frame[key]
             ELSE GetFromStacked(Take(stacked, Len(stacked) - 1), key)

\* VariableSet::get
get(vs, key) ==
    LET value == get_from_locals(vs, key)
    IN  IF value # None THEN value ELSE GetFromStacked(vs.stacked_vars, key)

\* A variant of stack that pushes the old local frame below the old parents.
stack_Prepended(vs, mode) ==
    [stacked_vars |-> <<vs.local_vars>> \o vs.stacked_vars,
     local_vars   |-> IF mode = "EmptyLocals" THEN EmptyFrame ELSE vs.local_vars]

\* VariableSet::stack
stack(vs, mode) ==
    [stacked_vars |-> Append(vs.stacked_vars, vs.local_vars),
     local_vars   |-> IF mode = "EmptyLocals" THEN EmptyFrame ELSE vs.local_vars]

\* VariableSet::insert
insert(vs, key, value) ==
    [vs EXCEPT !.local_vars = Bind(key, value) @@ vs.local_vars]

\* String::evaluate_tokens against a VariableSet.
evaluate_tokens_vs(s, vs) ==
    With(parse_all_elements(s), LAMBDA elements :
        EvaluateElements(elements, [k \in TokenKeys(elements) |-> get(vs, k)]))

\* evaluate_tokens_to_string: the expansion, which has to be a string.
evaluate_tokens_to_string(s, vs) ==
    Try(evaluate_tokens_vs(s, vs), LAMBDA value :
        IF value.t = "str" THEN value ELSE Error("not a string"))

\* serde_json::Map::insert on a sequence of <<key, value>> pairs.
MapInsert(o, key, value) ==
    IF \E i \in DOMAIN o : o[i][1] = key
    THEN [i \in DOMAIN o |-> IF o[i][1] = key THEN <<key, value>> ELSE o[i]]
    ELSE Append(o, <<key, value>>)

\* JsonValue::evaluate_tokens: arrays and objects are expanded member by member.
RECURSIVE evaluate_tokens_json(_, _)
RECURSIVE EvaluateItems(_, _, _)
RECURSIVE EvaluateMembers(_, _, _)
EvaluateItems(valarr, vs, out) ==
    IF valarr = <<>> THEN JArr(out)
    ELSE Try(evaluate_tokens_json(Head(valarr), vs), LAMBDA detokened_value :
            EvaluateItems(Tail(valarr), vs, Append(out, detokened_value)))
EvaluateMembers(valmap, vs, out) ==
    IF valmap = <<>> THEN JObj(out)
    ELSE Try(evaluate_tokens_vs(Head(valmap)[1], vs), LAMBDA detokened_key :
            IF detokened_key.t # "str" THEN Error("map key is not a string")
            ELSE Try(evaluate_tokens_json(Head(valmap)[2], vs),
                     LAMBDA detokened_value :
                        EvaluateMembers(Tail(valmap), vs,
                                        MapInsert(out, detokened_key.s,
                                                  detokened_value))))
evaluate_tokens_json(v, vs) ==
    CASE v.t = "obj" -> EvaluateMembers(v.o, vs, <<>>)
      [] v.t = "arr" -> EvaluateItems(v.a, vs, <<>>)
      [] v.t = "str" -> evaluate_tokens_vs(v.s, vs)
      [] OTHER       -> v

\* serde_json::from_str on a command's output, for the outputs the model
\* uses: a run of digits is a number, true, false and null are themselves,
\* and anything else does not parse.
RECURSIVE DigitsValue(_, _)
DigitsValue(s, acc) ==
    IF s = <<>> THEN acc
    ELSE DigitsValue(Tail(s), 10 * acc + (CHOOSE d \in 0..9 : Digit(d) = Head(s)))

IsDigits(s) == s # <<>> /\ \A i \in DOMAIN s : \E d \in 0..9 : Digit(d) = s[i]

from_str(s) ==
    CASE IsDigits(s) /\ (Len(s) = 1 \/ s[1] # "0") -> JNum(DigitsValue(s, 0))
      [] s = <<"t", "r", "u", "e">>      -> JBool(TRUE)
      [] s = <<"f", "a", "l", "s", "e">> -> JBool(FALSE)
      [] s = <<"n", "u", "l", "l">>      -> JNull
      [] OTHER -> Error("not json")

\* The value of a completed command's output: JSON when it parses, else the string.
OutputValue(str_val) ==
    With(from_str(str_val), LAMBDA json_val :
        IF IsError(json_val) THEN JStr(str_val) ELSE json_val)

-----------------------------------------------------------------------------
(* The run context (core/run_context.rs) *)

Some(x) == [t |-> "some", v |-> x]
Ok(x)   == [t |-> "ok", v |-> x]

\* The directories that exist (Path::is_dir).
Dirs == { <<"d">> }

\* RunContext::default
RunContext_default ==
    [forcing |-> "NotForced", env |-> None, dir |-> None, silent |-> FALSE]

ForcingContexts ==
    { "NotForced", "ParentIsForced", "ExplicitlyForced", "ForcedAsMainTask",
      "EverythingForced" }

ForcingBehaviours == { "Never", "Always", "Inherit" }

\* RunContext::child_context with the ExplicitlyForced arm handing an
\* inheriting child ParentIsForced
child_context_InheritDrops(self, child_behavior) ==
    [self EXCEPT !.forcing =
        CASE self.forcing = "EverythingForced" -> "EverythingForced"
          [] self.forcing = "ForcedAsMainTask" -> "ExplicitlyForced"
          [] self.forcing = "ExplicitlyForced" ->
                (CASE child_behavior = "Always"  -> "ExplicitlyForced"
                  [] child_behavior = "Inherit" -> "ParentIsForced"
                  [] child_behavior = "Never"   -> "NotForced")
          [] self.forcing = "ParentIsForced" ->
                (CASE child_behavior = "Always"  -> "ExplicitlyForced"
                  [] child_behavior = "Inherit" -> "ParentIsForced"
                  [] child_behavior = "Never"   -> "NotForced")
          [] self.forcing = "NotForced" ->
                (CASE child_behavior = "Always"  -> "ExplicitlyForced"
                  [] child_behavior = "Inherit" -> "NotForced"
                  [] child_behavior = "Never"   -> "NotForced")]

\* RunContext::child_context with a task that declares Never taken out of
\* EverythingForced
child_context_NeverWins(self, child_behavior) ==
    [self EXCEPT !.forcing =
        CASE self.forcing = "EverythingForced" ->
                (IF child_behavior = "Never" THEN "NotForced"
                 ELSE "EverythingForced")
          [] self.forcing = "ForcedAsMainTask" -> "ExplicitlyForced"
          [] self.forcing = "ExplicitlyForced" ->
                (CASE child_behavior = "Always"  -> "ExplicitlyForced"
                  [] child_behavior = "Inherit" -> "ExplicitlyForced"
                  [] child_behavior = "Never"   -> "NotForced")
          [] self.forcing = "ParentIsForced" ->
                (CASE child_behavior = "Always"  -> "ExplicitlyForced"
                  [] child_behavior = "Inherit" -> "ParentIsForced"
                  [] child_behavior = "Never"   -> "NotForced")
          [] self.forcing = "NotForced" ->
                (CASE child_behavior = "Always"  -> "ExplicitlyForced"
                  [] child_behavior = "Inherit" -> "NotForced"
                  [] child_behavior = "Never"   -> "NotForced")]

\* RunContext::child_context: env, dir and silent are cloned
child_context(self, child_behavior) ==
    [self EXCEPT !.forcing =
        CASE self.forcing = "EverythingForced" -> "EverythingForced"
          [] self.forcing = "ForcedAsMainTask" -> "ExplicitlyForced"
          [] self.forcing = "ExplicitlyForced" ->
                (CASE child_behavior = "Always"  -> "ExplicitlyForced"
                  [] child_behavior = "Inherit" -> "ExplicitlyForced"
                  [] child_behavior = "Never"   -> "NotForced")
          [] self.forcing = "ParentIsForced" ->
                (CASE child_behavior = "Always"  -> "ExplicitlyForced"
                  [] child_behavior = "Inherit" -> "ParentIsForced"
                  [] child_behavior = "Never"   -> "NotForced")
          [] self.forcing = "NotForced" ->
                (CASE child_behavior = "Always"  -> "ExplicitlyForced"
                  [] child_behavior = "Inherit" -> "NotForced"
                  [] child_behavior = "Never"   -> "NotForced")]

\* RunContext::is_forced with ParentIsForced counted as forced
is_forced_ParentCounts(self) ==
    CASE self.forcing = "EverythingForced" -> TRUE
      [] self.forcing = "ForcedAsMainTask" -> TRUE
      [] self.forcing = "ExplicitlyForced" -> TRUE
      [] self.forcing = "ParentIsForced"   -> TRUE
      [] self.forcing = "NotForced"        -> FALSE

\* RunContext::is_forced with ExplicitlyForced not counted as forced
is_forced_ExplicitDropped(self) ==
    CASE self.forcing = "EverythingForced" -> TRUE
      [] self.forcing = "ForcedAsMainTask" -> TRUE
      [] self.forcing = "ExplicitlyForced" -> FALSE
      [] self.forcing = "ParentIsForced"   -> FALSE
      [] self.forcing = "NotForced"        -> FALSE

\* RunContext::is_forced
is_forced(self) ==
    CASE self.forcing = "EverythingForced" -> TRUE
      [] self.forcing = "ForcedAsMainTask" -> TRUE
      [] self.forcing = "ExplicitlyForced" -> TRUE
      [] self.forcing = "ParentIsForced"   -> FALSE
      [] self.forcing = "NotForced"        -> FALSE

\* The map of update_env: keys and values expanded to strings.
RECURSIVE ExpandEnv(_, _, _)
ExpandEnv(envmap, vs, output_envmap) ==
    IF envmap = <<>> THEN Some(output_envmap)
    ELSE Try(evaluate_tokens_to_string(Head(envmap)[1], vs), LAMBDA key :
         Try(evaluate_tokens_to_string(Head(envmap)[2], vs), LAMBDA val :
            ExpandEnv(Tail(envmap), vs, MapInsert(output_envmap, key.s, val.s))))

RECURSIVE InsertAll(_, _)
InsertAll(self_env, env) ==
    IF env = <<>> THEN self_env
    ELSE InsertAll(MapInsert(self_env, Head(env)[1], Head(env)[2]), Tail(env))

\* RunContext::update_env
update_env(context, env, vs) ==
    Try(IF env = None THEN None ELSE ExpandEnv(env.v, vs, <<>>), LAMBDA expanded :
        IF context.env = None THEN [context EXCEPT !.env = expanded]
        ELSE IF expanded = None THEN context
        ELSE [context EXCEPT !.env = Some(InsertAll(context.env.v, expanded.v))])

\* RunContext::update_dir
update_dir(context, dir, vs) ==
    IF dir = None THEN context
    ELSE Try(evaluate_tokens_to_string(dir.v, vs), LAMBDA specified_dir :
            IF specified_dir.s \notin Dirs THEN Error("invalid directory")
            ELSE [context EXCEPT !.dir = Some(specified_dir.s)])

\* RunContext::update
update(context, env, dir, silent, vs) ==
    Try(update_env(context, env, vs), LAMBDA with_env :
    Try(update_dir(with_env, dir, vs), LAMBDA with_dir :
        [with_dir EXCEPT !.silent = with_dir.silent \/ silent]))

-----------------------------------------------------------------------------
(* Run gates (core/gate.rs) *)

\* An internal gate is its statement; a test gate is given with the exit
\* code of its process.
Internal(entry)     == [t |-> "Internal", entry |-> entry]
Test(test, code)    == [t |-> "Test", test |-> test, code |-> code]

RunGateNonZeroExit(code, statement) == [code |-> code, statement |-> statement]

\* str::splitn(2, '=')
RECURSIVE FindChar(_, _, _)
FindChar(s, c, i) ==
    IF i > Len(s) THEN 0 ELSE IF s[i] = c THEN i ELSE FindChar(s, c, i + 1)

SplitN2(s, c) ==
    With(FindChar(s, c, 1), LAMBDA i :
        IF i = 0 THEN <<s>> ELSE <<Take(s, i - 1), Drop(s, i)>>)

\* RunGate::evaluate_internal without the two trims
evaluate_internal_Untrimmed(entry, vs) ==
    With(SplitN2(entry, "="), LAMBDA entry_split :
    Try(evaluate_tokens_vs(entry_split[Len(entry_split)], vs), LAMBDA rhs :
    Try(IF Len(entry_split) = 2
        THEN evaluate_tokens_vs(entry_split[1], vs)
        ELSE JBool(TRUE), LAMBDA lhs :
        IF lhs # rhs
        THEN Some(RunGateNonZeroExit(1, to_string(lhs) \o <<" ", "=", " ">>
                                         \o to_string(rhs)))
        ELSE None)))

\* RunGate::evaluate_internal.  rhs and lhs are popped off entry_split, which
\* splitn(2, '=') made of at most two pieces; the syntax error is returned
\* when a piece is left after the two pops.
evaluate_internal(entry, vs) ==
    With(SplitN2(entry, "="), LAMBDA entry_split :
    Try(evaluate_tokens_vs(Trim(entry_split[Len(entry_split)]), vs), LAMBDA rhs :
    Try(IF Len(entry_split) = 2
        THEN evaluate_tokens_vs(Trim(entry_split[1]), vs)
        ELSE JBool(TRUE), LAMBDA lhs :
        IF Len(entry_split) > 2 THEN Error("gate syntax")
        ELSE IF lhs # rhs
        THEN Some(RunGateNonZeroExit(1, to_string(lhs) \o <<" ", "=", " ">>
                                         \o to_string(rhs)))
        ELSE None)))

\* RunGateTestConfig::evaluate, its process run to completion.
RunGateTestConfig_evaluate(gate, vs) ==
    Try(evaluate_tokens_to_string(gate.test, vs), LAMBDA statement :
        IF gate.code = 0 THEN None
        ELSE Some(RunGateNonZeroExit(gate.code, statement.s)))

\* RunGate::evaluate
RunGate_evaluate(gate, vs) ==
    IF gate.t = "Internal" THEN evaluate_internal(gate.entry, vs)
    ELSE RunGateTestConfig_evaluate(gate, vs)

\* Whether evaluating the gate launches a `test` process: a test gate whose
\* statement could be expanded.
Launches(gate, vs) ==
    gate.t = "Test" /\ ~IsError(evaluate_tokens_to_string(gate.test, vs))

\* The walk of test_run_gates before its first gate: no output, no gate
\* evaluated, no process launched.
NoGates == [output |-> None, evaluated |-> <<>>, launched |-> <<>>]

\* Gate i (counted from zero, as enumerate does) has been evaluated.
Walked(walk, i, gate, vs) ==
    [walk EXCEPT !.evaluated = Append(@, i),
                 !.launched = IF Launches(gate, vs) THEN Append(@, i) ELSE @]

\* The loop of test_run_gates with the gates numbered from one
RECURSIVE TestRunGatesLoop_OneBased(_, _, _, _)
TestRunGatesLoop_OneBased(statements, i, vs, walk) ==
    IF i > Len(statements) THEN walk
    ELSE With(RunGate_evaluate(statements[i], vs), LAMBDA run_gate_outcome :
         With(Walked(walk, i - 1, statements[i], vs), LAMBDA walked :
            IF IsError(run_gate_outcome)
            THEN [walked EXCEPT !.output = run_gate_outcome]
            ELSE IF run_gate_outcome # None
            THEN [walked EXCEPT !.output = Some(<<i, run_gate_outcome.v>>)]
            ELSE TestRunGatesLoop_OneBased(statements, i + 1, vs, walked)))

\* The loop of test_run_gates: the walk ends at the first gate that does not
\* pass, with its index, or at the first gate whose evaluation is an error.
RECURSIVE TestRunGatesLoop(_, _, _, _)
TestRunGatesLoop(statements, i, vs, walk) ==
    IF i > Len(statements) THEN walk
    ELSE With(RunGate_evaluate(statements[i], vs), LAMBDA run_gate_outcome :
         With(Walked(walk, i - 1, statements[i], vs), LAMBDA walked :
            IF IsError(run_gate_outcome)
            THEN [walked EXCEPT !.output = run_gate_outcome]
            ELSE IF run_gate_outcome # None
            THEN [walked EXCEPT !.output = Some(<<i - 1, run_gate_outcome.v>>)]
            ELSE TestRunGatesLoop(statements, i + 1, vs, walked)))

\* test_run_gates, with the gates it evaluated and the processes it launched.
GateWalk(statements, vs) ==
    IF statements = None THEN NoGates
    ELSE TestRunGatesLoop(statements.v, 1, vs, NoGates)

\* test_run_gates
test_run_gates(statements, vs) == GateWalk(statements, vs).output

-----------------------------------------------------------------------------
(* Command steps (core/step/basic_step.rs), the process run to completion *)

Completed(s) == [t |-> "Completed", s |-> s]
SkippedDueToIfStatement(id, st) == [t |-> "SkippedDueToIfStatement",
                                    id |-> id, statement |-> st]

default_command_entry == <<"b", "a", "s", "h", " ", "-", "c">>

\* A command step, given with what its process does: its exit code and what
\* it prints, which is the text stdout or, of an echo, the command itself
\* as the step has expanded it.
Command(c, x, o) ==
    [cmd |-> c, entry |-> default_command_entry, env |-> None, dir |-> None,
     if |-> None, store |-> None, silent |-> FALSE, exit |-> x, stdout |-> o,
     echo |-> FALSE]
Echo(c) == [Command(c, 0, <<>>) EXCEPT !.echo = TRUE]

\* What the process of a step prints, given the command as expanded.
Stdout(step, vs) ==
    IF step.echo THEN evaluate_tokens_to_string(step.cmd, vs).s ELSE step.stdout

\* BasicStep::build_command: the entry and the command, expanded to strings.
build_command(step, vs) ==
    Try(evaluate_tokens_to_string(step.entry, vs), LAMBDA entry :
    Try(evaluate_tokens_to_string(step.cmd, vs), LAMBDA user_command :
        JStr(entry.s \o <<" ">> \o user_command.s)))

\* BasicStep::evaluate with the `if` gates left out
BasicStep_evaluate_Ungated(step, vs, context) ==
    Try(update(context, step.env, step.dir, step.silent, vs), LAMBDA updated :
    Try(build_command(step, vs), LAMBDA command :
        IF step.exit = 0 THEN Completed(Trim(Stdout(step, vs)))
        ELSE Error("process failed")))

\* BasicStep::evaluate
BasicStep_evaluate(step, vs, context) ==
    Try(update(context, step.env, step.dir, step.silent, vs), LAMBDA updated :
    Try(test_run_gates(step.if, vs), LAMBDA exit_on_if :
        IF exit_on_if # None
        THEN SkippedDueToIfStatement(exit_on_if.v[1], exit_on_if.v[2].statement)
        ELSE Try(build_command(step, vs), LAMBDA command :
                IF step.exit = 0 THEN Completed(Trim(Stdout(step, vs)))
                ELSE Error("process failed"))))

\* A line that a step prints to the terminal: the line that tells that the
\* step is skipped (STEP skipped) or which command it runs (STEP command),
\* and what the process wrote to its stdout.
Line(kind, text) == [kind |-> kind, text |-> text]

\* What BasicStep::evaluate does besides returning: the context it runs
\* under, the processes it launches (tests, the test gates by their index,
\* and command, whether the process of its command) and the lines it
\* prints.  A process that does not exit with 0 writes nothing to stdout.
Effects(context, tests, command, printed) ==
    [context |-> context, tests |-> tests, command |-> command,
     printed |-> printed]

\* BasicStep::evaluate, "Execute Command": the process that is run and the
\* lines that are printed, stdout whenever it is not empty.
ExecuteCommand(step, vs, updated, walk) ==
    With(build_command(step, vs), LAMBDA command :
        IF IsError(command) THEN Effects(updated, walk.launched, FALSE, <<>>)
        ELSE Effects(updated, walk.launched, TRUE,
                <<Line("STEP command", command.s)>>
                \o IF step.exit = 0 /\ Trim(Stdout(step, vs)) # <<>>
                   THEN <<Line("stdout", Trim(Stdout(step, vs)))>> ELSE <<>>))

\* BasicStep::evaluate, what it does up to its return.
BasicStep_effects(step, vs, context) ==
    With(update(context, step.env, step.dir, step.silent, vs), LAMBDA updated :
        IF IsError(updated) THEN Effects(context, <<>>, FALSE, <<>>)
        ELSE With(GateWalk(step.if, vs), LAMBDA walk :
                IF IsError(walk.output) THEN Effects(updated, walk.launched, FALSE, <<>>)
                ELSE IF walk.output # None
                THEN Effects(updated, walk.launched, FALSE,
                             <<Line("STEP skipped", walk.output.v[2].statement)>>)
                ELSE ExecuteCommand(step, vs, updated, walk)))

-----------------------------------------------------------------------------
(* Raw variables (core/vars.rs) *)

\* Raw variables: a JSON value with tokens, or a command step.
RawJson(v)             == [t |-> "Json", value |-> v]
RawExecutable(c, x, o) == [t |-> "Executable", command |-> Command(c, x, o)]

\* RawVariable::evaluate.  The context a command runs in does not bear on
\* the value, so the default one stands for it.
RawVariable_evaluate(raw, vs) ==
    IF raw.t = "Json" THEN evaluate_tokens_json(raw.value, vs)
    ELSE Try(BasicStep_evaluate(raw.command, vs, RunContext_default),
             LAMBDA result :
                IF result.t = "Completed" THEN OutputValue(result.s)
                ELSE Error("command did not result in an output"))

\* What the loop of stack_raw_variables did with one entry: whether it
\* evaluated the raw definition, and the binding it inserted, if any.
Inherited(key, value) ==
    [evaluated |-> FALSE, inserted |-> TRUE, key |-> key, value |-> value]
Skipped ==
    [evaluated |-> FALSE, inserted |-> FALSE, key |-> <<>>, value |-> JNull]
Computed(key, value) ==
    [evaluated |-> TRUE, inserted |-> TRUE, key |-> key, value |-> value]
Failed ==
    [evaluated |-> TRUE, inserted |-> FALSE, key |-> <<>>, value |-> JNull]

\* A variant of the loop that expands every entry against the environment
\* the loop started with, so that no entry sees the entries before it.
RECURSIVE StackRawLoop_Snapshot(_, _, _, _)
StackRawLoop_Snapshot(output_vars, raw_vars, stack_mode, trace) ==
    IF raw_vars = <<>> THEN [result |-> output_vars, trace |-> trace]
    ELSE LET keytoken == Head(raw_vars)[1]
             rawvalue == Head(raw_vars)[2]
             inherited == get_from_parent(output_vars, keytoken)
             snapshot == [output_vars EXCEPT !.local_vars =
                             IF stack_mode = "EmptyLocals" THEN EmptyFrame
                             ELSE output_vars.stacked_vars[Len(output_vars.stacked_vars)]]
         IN  IF inherited # None
             THEN IF stack_mode = "EmptyLocals"
                  THEN StackRawLoop_Snapshot(insert(output_vars, keytoken, inherited),
                                             Tail(raw_vars), stack_mode,
                                             Append(trace, Inherited(keytoken, inherited)))
                  ELSE StackRawLoop_Snapshot(output_vars, Tail(raw_vars), stack_mode,
                                             Append(trace, Skipped))
             ELSE With(evaluate_tokens_to_string(keytoken, snapshot), LAMBDA key :
                  IF IsError(key)
                  THEN [result |-> key, trace |-> Append(trace, Failed)]
                  ELSE With(RawVariable_evaluate(rawvalue, snapshot), LAMBDA value :
                       IF IsError(value)
                       THEN [result |-> value, trace |-> Append(trace, Failed)]
                       ELSE StackRawLoop_Snapshot(
                               insert(output_vars, key.s, value), Tail(raw_vars),
                               stack_mode, Append(trace, Computed(key.s, value)))))

\* The loop of stack_raw_variables over the entries of raw_vars, in insertion
\* order.  The result is the new environment or the first error; trace
\* records what the loop did with each entry it reached.
RECURSIVE StackRawLoop(_, _, _, _)
StackRawLoop(output_vars, raw_vars, stack_mode, trace) ==
    IF raw_vars = <<>> THEN [result |-> output_vars, trace |-> trace]
    ELSE LET keytoken == Head(raw_vars)[1]
             rawvalue == Head(raw_vars)[2]
             inherited == get_from_parent(output_vars, keytoken)
         IN  IF inherited # None
             THEN IF stack_mode = "EmptyLocals"
                  THEN StackRawLoop(insert(output_vars, keytoken, inherited),
                                    Tail(raw_vars), stack_mode,
                                    Append(trace, Inherited(keytoken, inherited)))
                  ELSE StackRawLoop(output_vars, Tail(raw_vars), stack_mode,
                                    Append(trace, Skipped))
             ELSE With(evaluate_tokens_to_string(keytoken, output_vars), LAMBDA key :
                  IF IsError(key)
                  THEN [result |-> key, trace |-> Append(trace, Failed)]
                  ELSE With(RawVariable_evaluate(rawvalue, output_vars), LAMBDA value :
                       IF IsError(value)
                       THEN [result |-> value, trace |-> Append(trace, Failed)]
                       ELSE StackRawLoop(insert(output_vars, key.s, value),
                                         Tail(raw_vars), stack_mode,
                                         Append(trace, Computed(key.s, value)))))

\* VariableSet::stack_raw_variables
stack_raw_variables(vs, raw_vars, stack_mode) ==
    StackRawLoop(stack(vs, stack_mode), raw_vars, stack_mode, <<>>)

-----------------------------------------------------------------------------
(* Sub-task steps (core/step/task_step.rs) *)

SubmitTasks(tasks)              == [t |-> "SubmitTasks", tasks |-> tasks]

PreparedTaskStep(task, vs, context) ==
    [task |-> task, vars |-> vs, context |-> context]

\* TaskStepConfig::_prepare_subtasks; map_vars is None or the pairs of `over`
\* that are still to be bound, the last of them first.
RECURSIVE prepare_subtasks_rec(_, _, _, _)
RECURSIVE PrepareForValues(_, _, _, _, _, _, _)
RECURSIVE PrepareForValues_LastOnly(_, _, _, _, _, _, _)
\* The loop over the values of a pair that keeps the descriptors of the
\* last value only
PrepareForValues_LastOnly(step, vs, context, target_key, source_value_vec, map_vars, tasks) ==
    IF source_value_vec = <<>> THEN Ok(tasks)
    ELSE With(insert(vs, target_key, Head(source_value_vec)), LAMBDA new_step_vars :
         Try(prepare_subtasks_rec(step, new_step_vars, context, Some(map_vars)),
             LAMBDA new_tasks :
                PrepareForValues_LastOnly(step, vs, context, target_key,
                                          Tail(source_value_vec), map_vars,
                                          new_tasks.v)))

\* The loop of _prepare_subtasks over the values of the pair that was popped.
PrepareForValues(step, vs, context, target_key, source_value_vec, map_vars, tasks) ==
    IF source_value_vec = <<>> THEN Ok(tasks)
    ELSE With(insert(vs, target_key, Head(source_value_vec)), LAMBDA new_step_vars :
         Try(prepare_subtasks_rec(step, new_step_vars, context, Some(map_vars)),
             LAMBDA new_tasks :
                PrepareForValues(step, vs, context, target_key,
                                 Tail(source_value_vec), map_vars,
                                 tasks \o new_tasks.v)))
prepare_subtasks_rec(step, vs, context, map_vars) ==
    IF map_vars = None THEN Ok(<<PreparedTaskStep(step.task, vs, context)>>)
    ELSE IF map_vars.v = <<>> THEN prepare_subtasks_rec(step, vs, context, None)
    ELSE LET last == map_vars.v[Len(map_vars.v)]
             rest == Take(map_vars.v, Len(map_vars.v) - 1)
         IN  Try(evaluate_tokens_vs(last[2], vs), LAMBDA source :
                IF source.t = "obj" THEN Error("unable to map over object")
                ELSE PrepareForValues(step, vs, context, last[1],
                                      IF source.t = "arr" THEN source.a
                                      ELSE <<source>>,
                                      rest, <<>>))

\* TaskStepConfig::prepare_subtasks; step.over holds the pairs of the map in
\* the order in which the HashMap iterates them.
prepare_subtasks(step, vs, context) ==
    Try(prepare_subtasks_rec(step, vs, context, step.over), LAMBDA tasks :
        SubmitTasks(tasks.v))

\* TaskStepConfig::evaluate
TaskStepConfig_evaluate(step, vs, context) ==
    Try(IF step.vars = None THEN stack(vs, "CopyLocals")
        ELSE stack_raw_variables(vs, step.vars.v, "EmptyLocals").result,
        LAMBDA stacked :
    Try(update(context, step.env, step.dir, step.silent, stacked), LAMBDA updated :
    Try(test_run_gates(step.if, stacked), LAMBDA runif_result :
        IF runif_result # None
        THEN SkippedDueToIfStatement(runif_result.v[1], runif_result.v[2].statement)
        ELSE prepare_subtasks(step, stacked, updated))))

-----------------------------------------------------------------------------
(* The task engine (core/task.rs).  The file system is a function from the  *)
(* paths that exist to their modification times, which are integers; the    *)
(* clock is read as `now`, and no file is newer than the clock.             *)

UNIX_EPOCH == 0

later(a, b)   == IF a >= b THEN a ELSE b
earlier(a, b) == IF a <= b THEN a ELSE b

SkippedTask(reason)  == [t |-> "SkippedTask", reason |-> reason]
CanceledTask(reason) == [t |-> "CanceledTask", reason |-> reason]

TaskEvaluationData(label, vs, context) ==
    [label |-> label, vars |-> vs, context |-> context]

\* SingularStepConfig::evaluate: a sub-task step or a command step.
SingularStepConfig_evaluate(step, vs, context) ==
    IF "task" \in DOMAIN step THEN TaskStepConfig_evaluate(step, vs, context)
    ELSE BasicStep_evaluate(step, vs, context)

\* A parallel group of singular steps.
Parallel(children) == [parallel |-> children]

\* ParallelStepConfig::evaluate, the loop over the joined outcomes, which
\* ends at the first error of a child and drops what a child completed with
RECURSIVE ParallelCollect_FirstOnly(_, _)
ParallelCollect_FirstOnly(task_outcomes, descriptors) ==
    IF task_outcomes = <<>>
    THEN IF descriptors = <<>> THEN Completed(<<>>) ELSE SubmitTasks(descriptors)
    ELSE IF IsError(Head(task_outcomes)) THEN Head(task_outcomes)
    ELSE IF Head(task_outcomes).t = "SubmitTasks"
    THEN SubmitTasks(Head(task_outcomes).tasks)
    ELSE ParallelCollect_FirstOnly(Tail(task_outcomes), descriptors)

\* ParallelStepConfig::evaluate, the loop over the joined outcomes: the
\* first error of a child, or the descriptors of the children, flattened;
\* what a child completed with is dropped.
RECURSIVE ParallelCollect(_, _)
ParallelCollect(task_outcomes, descriptors) ==
    IF task_outcomes = <<>>
    THEN IF descriptors = <<>> THEN Completed(<<>>) ELSE SubmitTasks(descriptors)
    ELSE IF IsError(Head(task_outcomes)) THEN Head(task_outcomes)
    ELSE ParallelCollect(Tail(task_outcomes),
            IF Head(task_outcomes).t = "SubmitTasks"
            THEN descriptors \o Head(task_outcomes).tasks ELSE descriptors)

\* The outcomes of the children of a parallel group, as join_all returns
\* them: in the order of the children.
ChildOutcomes(step, vs, context) ==
    [i \in DOMAIN step.parallel |->
        SingularStepConfig_evaluate(step.parallel[i], vs, context)]

\* ParallelStepConfig::evaluate
ParallelStepConfig_evaluate(step, vs, context) ==
    ParallelCollect(ChildOutcomes(step, vs, context), <<>>)

\* StepConfig::evaluate: a parallel group or a singular step.
StepConfig_evaluate(step, vs, context) ==
    IF "parallel" \in DOMAIN step THEN ParallelStepConfig_evaluate(step, vs, context)
    ELSE SingularStepConfig_evaluate(step, vs, context)

\* StepConfig::get_store: the key of a command step; a sub-task step and a
\* parallel group have none.
get_store(step) == IF "store" \in DOMAIN step THEN step.store ELSE None

\* TaskConfig::prepare
TaskConfig_prepare(task, default_label, vs, stack_mode, parent_context) ==
    With(child_context(parent_context, task.forcing), LAMBDA context :
    Try(IF task.vars = None THEN stack(vs, stack_mode)
        ELSE stack_raw_variables(vs, task.vars.v, stack_mode).result,
        LAMBDA stacked :
    Try(update(context, task.env, task.dir, task.silent, stacked), LAMBDA updated :
    Try(IF task.label = None THEN JStr(default_label)
        ELSE evaluate_tokens_to_string(task.label.v, stacked), LAMBDA label :
        TaskEvaluationData(label.s, stacked, updated)))))

\* TaskConfig::test_cancel that cancels on the first gate that fails
test_cancel_OnFailure(task, data) ==
    IF task.unless = None THEN None
    ELSE Try(test_run_gates(task.unless, data.vars), LAMBDA run_gate_outcome :
            IF run_gate_outcome # None
            THEN Some(CanceledTask("cancel-if statement returned false"))
            ELSE None)

\* TaskConfig::test_cancel
test_cancel(task, data) ==
    IF task.unless = None THEN None
    ELSE Try(test_run_gates(task.unless, data.vars), LAMBDA run_gate_outcome :
            IF run_gate_outcome # None THEN None
            ELSE Some(CanceledTask("all unless-statements returned true")))

\* TaskConfig::get_latest_input: a missing input file is an error.
RECURSIVE LatestInputLoop(_, _, _, _)
LatestInputLoop(inputs, vs, files, last_modification) ==
    IF inputs = <<>> THEN Ok(last_modification)
    ELSE Try(evaluate_tokens_to_string(Head(inputs), vs), LAMBDA path :
            IF path.s \notin DOMAIN files THEN Error("no such file")
            ELSE LatestInputLoop(Tail(inputs), vs, files,
                                 later(last_modification, files[path.s])))

get_latest_input(task, vs, files) ==
    IF task.inputs = None THEN Ok(UNIX_EPOCH)
    ELSE LatestInputLoop(task.inputs.v, vs, files, UNIX_EPOCH)

\* TaskConfig::get_earliest_output: only the outputs that exist count.
RECURSIVE EarliestOutputLoop(_, _, _, _)
EarliestOutputLoop(outputs, vs, files, first_modification) ==
    IF outputs = <<>> THEN Ok(first_modification)
    ELSE Try(evaluate_tokens_to_string(Head(outputs), vs), LAMBDA path :
            EarliestOutputLoop(Tail(outputs), vs, files,
                IF path.s \in DOMAIN files
                THEN earlier(first_modification, files[path.s])
                ELSE first_modification))

\* TaskConfig::get_earliest_output that starts from the epoch
get_earliest_output_FromEpoch(task, vs, files, now) ==
    IF task.outputs = None THEN Ok(UNIX_EPOCH)
    ELSE EarliestOutputLoop(task.outputs.v, vs, files, UNIX_EPOCH)

get_earliest_output(task, vs, files, now) ==
    IF task.outputs = None THEN Ok(now)
    ELSE EarliestOutputLoop(task.outputs.v, vs, files, now)

RunIfReturnedFalse(id, statement) ==
    [reason |-> "run-if statement returned false", id |-> id,
     statement |-> statement]
OutputsUpToDate ==
    [reason |-> "all outputs are up to date", id |-> 0, statement |-> <<>>]

\* TaskConfig::check_skip_state with outputs that are not older than the
\* inputs counted as up to date
check_skip_state_NotOlder(task, vs, files, now) ==
    Try(test_run_gates(task.if, vs), LAMBDA run_gate_outcome :
        IF run_gate_outcome # None
        THEN Some(RunIfReturnedFalse(run_gate_outcome.v[1],
                                     run_gate_outcome.v[2].statement))
        ELSE IF task.inputs # None
        THEN Try(get_latest_input(task, vs, files), LAMBDA latest_input :
             Try(get_earliest_output(task, vs, files, now), LAMBDA earliest_output :
                IF earliest_output.v >= latest_input.v
                THEN Some(OutputsUpToDate) ELSE None))
        ELSE None)

\* TaskConfig::check_skip_state
check_skip_state(task, vs, files, now) ==
    Try(test_run_gates(task.if, vs), LAMBDA run_gate_outcome :
        IF run_gate_outcome # None
        THEN Some(RunIfReturnedFalse(run_gate_outcome.v[1],
                                     run_gate_outcome.v[2].statement))
        ELSE IF task.inputs # None
        THEN Try(get_latest_input(task, vs, files), LAMBDA latest_input :
             Try(get_earliest_output(task, vs, files, now), LAMBDA earliest_output :
                IF earliest_output.v > latest_input.v
                THEN Some(OutputsUpToDate) ELSE None))
        ELSE None)

\* TaskConfig::test_skip
test_skip(task, data, files, now) ==
    Try(check_skip_state(task, data.vars, files, now), LAMBDA skip_reason :
        IF skip_reason = None THEN None
        ELSE IF ~is_forced(data.context) THEN Some(SkippedTask(skip_reason.v))
        ELSE None)

\* What a task did, in order: the lines it logged and the steps it evaluated,
\* each with the environment it was evaluated against.
Logged(label, event) ==
    [label |-> label, event |-> event, phase |-> "", step_i |-> 0, vars |-> None]
StepEvaluated(label, phase, step_i, vs) ==
    [label |-> label, event |-> "step", phase |-> phase, step_i |-> step_i,
     vars |-> vs]

\* The state of an evaluation: the result so far, the task's variables and
\* what has been done.
Run(result, vs, log) == [result |-> result, vars |-> vs, log |-> log]

\* The outputs of the joined sub-tasks, their errors dropped
RECURSIVE CollectSubtasks_ErrorsDropped(_, _)
CollectSubtasks_ErrorsDropped(subtask_results, collected) ==
    IF subtask_results = <<>> THEN Ok(collected)
    ELSE CollectSubtasks_ErrorsDropped(Tail(subtask_results),
            IF IsError(Head(subtask_results)) \/ Head(subtask_results) = None
            THEN collected
            ELSE collected \o Head(subtask_results).v)

\* The outputs of the joined sub-tasks, those of the last sub-task first
RECURSIVE CollectSubtasks_Reversed(_, _)
CollectSubtasks_Reversed(subtask_results, collected) ==
    IF subtask_results = <<>> THEN Ok(collected)
    ELSE IF IsError(Head(subtask_results)) THEN Head(subtask_results)
    ELSE CollectSubtasks_Reversed(Tail(subtask_results),
            IF Head(subtask_results) = None THEN collected
            ELSE Head(subtask_results).v \o collected)

\* The first error among the results of the joined sub-tasks, or their
\* outputs, concatenated.
RECURSIVE CollectSubtasks(_, _)
CollectSubtasks(subtask_results, collected) ==
    IF subtask_results = <<>> THEN Ok(collected)
    ELSE IF IsError(Head(subtask_results)) THEN Head(subtask_results)
    ELSE CollectSubtasks(Tail(subtask_results),
            IF Head(subtask_results) = None THEN collected
            ELSE collected \o Head(subtask_results).v)

\* What an evaluation is given besides the task: the configuration, whether
\* the output is captured, the file system and the clock.
World(config, capture_output, files, now) ==
    [config |-> config, capture_output |-> capture_output, files |-> files,
     now |-> now]

\* TaskConfig::evaluate_steps, "Check for storage", with nothing stored
StoreOutput_Dropped(vs, step, step_output) == vs

\* TaskConfig::evaluate_steps, "Check for storage", with the output stored
\* as the string it is
StoreOutput_Raw(vs, step, step_output) ==
    IF get_store(step) # None
    THEN insert(vs, get_store(step).v, JStr(step_output))
    ELSE vs

\* TaskConfig::evaluate_steps, "Process Output" and "Check for storage": the
\* output of a completed step, parsed, is bound to the key the step stores.
StoreOutput(vs, step, step_output) ==
    IF get_store(step) # None
    THEN insert(vs, get_store(step).v, OutputValue(step_output))
    ELSE vs

RECURSIVE TaskConfig_evaluate(_, _, _, _)
RECURSIVE EvaluateStepsLoop(_, _, _, _, _, _, _)
RECURSIVE JoinSubtasks(_, _, _, _, _, _)

\* The sub-task prepared against the context its descriptor recorded
subtask_data_FromDescriptor(data, world, subtask) ==
    TaskConfig_prepare(world.config[subtask.task], subtask.task, subtask.vars,
                       "EmptyLocals", subtask.context)

\* TaskConfig::evaluate_subtask, `subtask_data`: the sub-task is prepared on
\* the variables of its descriptor and against the context of the task that
\* evaluates the step.
subtask_data(data, world, subtask) ==
    TaskConfig_prepare(world.config[subtask.task], subtask.task, subtask.vars,
                       "EmptyLocals", data.context)

\* TaskConfig::evaluate_subtask
evaluate_subtask(data, world, subtask, log) ==
    IF subtask.task \notin DOMAIN world.config
    THEN Run(Error("unknown task"), data.vars, log)
    ELSE With(subtask_data(data, world, subtask), LAMBDA prepared :
                IF IsError(prepared) THEN Run(prepared, data.vars, log)
                ELSE TaskConfig_evaluate(world.config[subtask.task], prepared,
                                         world, log))

\* join_all over the sub-tasks of a step: each of them is evaluated.
JoinSubtasks(subtasks, k, data, world, subtask_results, log) ==
    IF k > Len(subtasks)
    THEN Run(CollectSubtasks(subtask_results, <<>>), data.vars, log)
    ELSE With(evaluate_subtask(data, world, subtasks[k], log),
              LAMBDA outcome :
                JoinSubtasks(subtasks, k + 1, data, world,
                             Append(subtask_results, outcome.result),
                             outcome.log))

\* The loop of TaskConfig::evaluate_steps, at step step_i (counted from one)
\* of the list `steps`, which is the list `phase` of the task.
EvaluateStepsLoop(steps, step_i, data, world, outputs, log, phase) ==
    IF step_i > Len(steps) THEN Run(Ok(outputs), data.vars, log)
    ELSE
    With(Append(log, StepEvaluated(data.label, phase, step_i - 1, data.vars)), LAMBDA logged :
    With(StepConfig_evaluate(steps[step_i], data.vars, data.context),
         LAMBDA step_output :
        IF IsError(step_output) THEN Run(step_output, data.vars, logged)
        ELSE IF step_output.t = "SubmitTasks"
        THEN With(JoinSubtasks(step_output.tasks, 1, data, world, <<>>, logged),
                  LAMBDA joined :
                    IF IsError(joined.result) THEN joined
                    ELSE EvaluateStepsLoop(steps, step_i + 1, data, world,
                            outputs \o joined.result.v, joined.log, phase))
        ELSE IF step_output.t = "SkippedDueToIfStatement"
        THEN EvaluateStepsLoop(steps, step_i + 1, data, world, outputs, logged, phase)
        ELSE EvaluateStepsLoop(steps, step_i + 1,
                [data EXCEPT !.vars = StoreOutput(@, steps[step_i], step_output.s)],
                world,
                IF world.capture_output THEN Append(outputs, step_output.s) ELSE outputs,
                logged, phase)))

\* TaskConfig::evaluate_steps
evaluate_steps(steps, data, world, log, phase) ==
    EvaluateStepsLoop(steps, 1, data, world, <<>>, log, phase)

KeySuccess == <<"S", "U", "C", "C", "E", "S", "S">>

\* TaskConfig::evaluate, the binding of SUCCESS, bound to true whatever the
\* steps did
InsertSuccess_AlwaysTrue(vs, step_outputs) == insert(vs, KeySuccess, JBool(TRUE))

\* TaskConfig::evaluate, the binding of SUCCESS after the steps.
InsertSuccess(vs, step_outputs) ==
    insert(vs, KeySuccess, JBool(~IsError(step_outputs)))

\* TaskConfig::evaluate, "Handle errors", with the error of the steps
\* returned whenever the steps failed
HandleErrors_StepErrorFirst(step_outputs, poststep_outputs) ==
    IF IsError(step_outputs) THEN step_outputs
    ELSE IF IsError(poststep_outputs) THEN poststep_outputs
    ELSE Ok(<<step_outputs.v, poststep_outputs.v>>)

\* TaskConfig::evaluate, "Handle errors": the error that is returned, or the
\* outputs of the steps and of the post-steps.
HandleErrors(step_outputs, poststep_outputs) ==
    IF ~IsError(step_outputs)
    THEN IF ~IsError(poststep_outputs)
         THEN Ok(<<step_outputs.v, poststep_outputs.v>>)
         ELSE poststep_outputs
    ELSE IF ~IsError(poststep_outputs) THEN step_outputs
         ELSE poststep_outputs

\* The line that TaskConfig::evaluate logs for the outcome of the steps and
\* of the post-steps.
OutcomeLine(step_outputs, poststep_outputs) ==
    IF ~IsError(step_outputs)
    THEN IF ~IsError(poststep_outputs) THEN "Finished"
         ELSE "Task succeeded, but post-steps failed"
    ELSE IF ~IsError(poststep_outputs) THEN "Task failed"
         ELSE "Task failed, and then post-steps failed as well"

\* TaskConfig::evaluate, "Finalize"
Finalize(handled, pretest_outputs, capture_output) ==
    IF IsError(handled) THEN handled
    ELSE IF capture_output
    THEN Some(pretest_outputs \o handled.v[1] \o handled.v[2])
    ELSE None

\* TaskConfig::evaluate from "Do evaluation" on: the steps, SUCCESS, the
\* post-steps and the error of the two that is returned.
EvaluateMain(task, data, world, log, pretest_outputs) ==
    With(evaluate_steps(task.steps, data, world,
                        Append(log, Logged(data.label, "Begin")), "steps"),
         LAMBDA step_outputs :
    With([data EXCEPT !.vars = InsertSuccess(step_outputs.vars, step_outputs.result)],
         LAMBDA after :
    With(IF task.poststeps = None THEN Run(Ok(<<>>), after.vars, step_outputs.log)
         ELSE evaluate_steps(task.poststeps.v, after, world,
                             Append(step_outputs.log,
                                    Logged(data.label, "Evaluating post-steps")),
                             "poststeps"),
         LAMBDA poststep_outputs :
        Run(Finalize(HandleErrors(step_outputs.result, poststep_outputs.result),
                     pretest_outputs, world.capture_output),
            poststep_outputs.vars,
            Append(poststep_outputs.log,
                   Logged(data.label, OutcomeLine(step_outputs.result,
                                                  poststep_outputs.result)))))))

\* TaskConfig::evaluate from "Check for Skipping" on.
EvaluateUnlessSkipped(task, data, world, log, pretest_outputs) ==
    With(test_skip(task, data, world.files, world.now), LAMBDA skipped :
        IF IsError(skipped) THEN Run(skipped, data.vars, log)
        ELSE IF skipped # None /\ ~is_forced(data.context)
        THEN Run(None, data.vars, Append(log, Logged(data.label, "Skipped")))
        ELSE EvaluateMain(task, data, world,
                          IF skipped # None
                          THEN Append(log, Logged(data.label, "Forced")) ELSE log,
                          pretest_outputs))

\* TaskConfig::evaluate: the cancel check, the pre-steps, the skip check, the
\* steps and the post-steps.
\* TaskConfig::evaluate with the error of the pre-steps dropped: the task
\* goes on to the test for skipping
TaskConfig_evaluate_PreStepErrorDropped(task, data, world, log) ==
    With(test_cancel(task, data), LAMBDA canceled :
        IF IsError(canceled) THEN Run(canceled, data.vars, log)
        ELSE IF canceled # None
        THEN Run(Error("task canceled"), data.vars,
                 Append(log, Logged(data.label, "Canceled")))
        ELSE With(IF task.presteps = None THEN Run(Ok(<<>>), data.vars, log)
                  ELSE evaluate_steps(task.presteps.v, data, world,
                            Append(log, Logged(data.label,
                                               "Evaluating Dependencies")),
                            "presteps"),
                  LAMBDA pretest_outputs :
                    EvaluateUnlessSkipped(task,
                            [data EXCEPT !.vars = pretest_outputs.vars],
                            world, pretest_outputs.log,
                            IF IsError(pretest_outputs.result) THEN <<>>
                            ELSE pretest_outputs.result.v)))

TaskConfig_evaluate(task, data, world, log) ==
    With(test_cancel(task, data), LAMBDA canceled :
        IF IsError(canceled) THEN Run(canceled, data.vars, log)
        ELSE IF canceled # None
        THEN Run(Error("task canceled"), data.vars,
                 Append(log, Logged(data.label, "Canceled")))
        ELSE With(IF task.presteps = None THEN Run(Ok(<<>>), data.vars, log)
                  ELSE evaluate_steps(task.presteps.v, data, world,
                            Append(log, Logged(data.label,
                                               "Evaluating Dependencies")),
                            "presteps"),
                  LAMBDA pretest_outputs :
                    IF IsError(pretest_outputs.result) THEN pretest_outputs
                    ELSE EvaluateUnlessSkipped(task,
                            [data EXCEPT !.vars = pretest_outputs.vars],
                            world, pretest_outputs.log,
                            pretest_outputs.result.v)))

-----------------------------------------------------------------------------
(* The variable environment session: an environment is built from new() by *)
(* insert, stack and stack_raw_variables, queried with get, and handed to   *)
(* a sub-task step.                                                         *)

MaxFrames == 2
MaxRaw    == 2

KeyA == <<"a">>
KeyB == <<"b">>
TokenA == <<"{", "{", "a", "}", "}">>
TokenB == <<"{", "{", "b", "}", "}">>

Keys       == { KeyA, KeyB }
Bindings   == { <<KeyA, JNum(9)>>, <<KeyB, JStr(KeyA)>> }
StackModes == { "EmptyLocals", "CopyLocals" }

\* The entries raw maps are made of: a value with a token, a command that
\* prints a, and a key with a token.
RawEntries ==
    { <<KeyA, RawJson(JStr(TokenB))>>,
      <<KeyB, RawExecutable(<<"e">>, 0, <<"a">>)>>,
      <<TokenB, RawJson(JNum(1))>> }

\* The raw maps of at most MaxRaw entries (an IndexMap: no key twice).
RECURSIVE RawMapsOfLen(_)
RawMapsOfLen(n) ==
    IF n = 0 THEN { <<>> }
    ELSE { Append(m, e) : m \in RawMapsOfLen(n - 1), e \in RawEntries }

HasDistinctKeys(m) == \A i, j \in DOMAIN m : i # j => m[i][1] # m[j][1]

RawMaps ==
    { m \in UNION { RawMapsOfLen(n) : n \in 0..MaxRaw } : HasDistinctKeys(m) }

\* The sub-task steps of the session.
StepVars  == { None, Some(<<>>), Some(<<<<KeyA, RawJson(JStr(TokenB))>>>>) }
StepIfs   == { None, Some(<<Internal(TokenA \o <<"=", "9">>), Test(<<"t">>, 0)>>) }
StepOvers == { None, Some(<<<<KeyB, TokenA>>>>) }
Steps ==
    { [task |-> "t", vars |-> v, env |-> None, dir |-> None, if |-> g,
       over |-> o, silent |-> FALSE] :
         v \in StepVars, g \in StepIfs, o \in StepOvers }

Insert ==
    /\ \E b \in Bindings :
          /\ E' = insert(E, b[1], b[2])
          /\ call' = [op |-> "insert", key |-> b[1], value |-> b[2]]
    /\ ret' = None
    /\ UNCHANGED <<tokVars, exVars, ctxVars>>

Stack ==
    /\ Len(E.stacked_vars) < MaxFrames
    /\ \E mode \in StackModes :
          /\ E' = stack(E, mode)
          /\ call' = [op |-> "stack", pre |-> E, mode |-> mode]
    /\ ret' = None
    /\ UNCHANGED <<tokVars, exVars, ctxVars>>

StackRaw ==
    /\ Len(E.stacked_vars) < MaxFrames
    /\ \E raw_vars \in RawMaps, mode \in StackModes :
          /\ ret' = stack_raw_variables(E, raw_vars, mode)
          /\ E' = IF IsError(ret'.result) THEN E ELSE ret'.result
          /\ call' = [op |-> "stack_raw_variables", pre |-> E,
                      raw_vars |-> raw_vars, mode |-> mode]
    /\ UNCHANGED <<tokVars, exVars, ctxVars>>

Get ==
    /\ \E k \in Keys :
          /\ call' = [op |-> "get", pre |-> E, key |-> k]
          /\ ret' = get(E, k)
    /\ UNCHANGED <<E, tokVars, exVars, ctxVars>>

TaskStep ==
    /\ \E step \in Steps :
          /\ call' = [op |-> "task_step", pre |-> E, step |-> step]
          /\ ret' = TaskStepConfig_evaluate(step, E, RunContext_default)
    /\ UNCHANGED <<E, tokVars, exVars, ctxVars>>

InitVars == EnvIdle /\ TokInit /\ ExIdle /\ CtxIdle
NextVars == Insert \/ Stack \/ StackRaw \/ Get \/ TaskStep
SpecVars == InitVars /\ [][NextVars]_vars

-----------------------------------------------------------------------------
(* Properties of the variable environment *)

\* The frames of an environment, oldest parent first, the local frame last.
Frames(vs) == Append(vs.stacked_vars, vs.local_vars)

\* The value lookup is to give: the binding of the newest frame that binds
\* key, the local frame being the newest of all.
Lookup(vs, key) ==
    IF IsBound(Frames(vs), key) THEN NewestBinding(Frames(vs), key)
    ELSE Error("unknown key")

\* C3: for every reachable environment E and key K, get(K) is E.local[K] if
\* the local frame binds K, else the binding of the newest parent frame that
\* binds K, and it is the unknown-key error exactly when no frame binds K.
C3_GetIsNewestBinding ==
    /\ \A K \in Keys :
          /\ K \in DOMAIN E.local_vars => get(E, K) = E.local_vars[K]
          /\ get(E, K) = Lookup(E, K)
          /\ get(E, K) = Error("unknown key") <=> ~IsBound(Frames(E), K)
    /\ call.op = "get" => ret = Lookup(E, call.key)

\* get has answered from a parent frame that an older parent frame, with
\* another value for the key, lies below.
C3_Witness ==
    /\ call.op = "get"
    /\ call.key \notin DOMAIN E.local_vars
    /\ Len(E.stacked_vars) = 2
    /\ call.key \in DOMAIN E.stacked_vars[1]
    /\ call.key \in DOMAIN E.stacked_vars[2]
    /\ E.stacked_vars[1][call.key] # E.stacked_vars[2][call.key]
    /\ ret = E.stacked_vars[2][call.key]

Last(s) == s[Len(s)]

\* What stack(mode) is to return for the environment old.
IsPushOf(new, old, mode) ==
    /\ new.stacked_vars = old.stacked_vars \o <<old.local_vars>>
    /\ new.local_vars = IF mode = "EmptyLocals" THEN EmptyFrame ELSE old.local_vars

HasOver(step) == step.over # None /\ step.over.v # <<>>
OverTargets(step) ==
    IF step.over = None THEN {} ELSE { step.over.v[i][1] : i \in DOMAIN step.over.v }

\* The descriptors a sub-task step has produced.
Descriptors ==
    IF call.op = "task_step" /\ ret.t = "SubmitTasks"
    THEN { ret.tasks[i] : i \in DOMAIN ret.tasks } ELSE {}

\* The keys the entries of a raw map can bind: the keys as written and the
\* names the environment gives their tokens.
RawKeyNames(raw_vars, vs) ==
    { raw_vars[i][1] : i \in DOMAIN raw_vars }
    \cup { evaluate_tokens_vs(raw_vars[i][1], vs).s :
              i \in { j \in DOMAIN raw_vars :
                         evaluate_tokens_vs(raw_vars[j][1], vs).t = "str" } }

\* C4 (amended): stack(mode) returns the old parent frames followed by the
\* old local frame, with an empty local frame under EmptyLocals and the old
\* local frame under CopyLocals.  A sub-task step without vars and without
\* over yields a descriptor whose local frame and immediate parent frame are
\* both the caller's local frame; with over the local frame binds the target
\* keys on top of the caller's bindings.  A step with vars starts from an
\* empty local frame: with an empty map its descriptor's local frame binds
\* nothing but the target keys of over, and with any map only keys of the
\* map and target keys of over.
C4_PushAndSubTaskFrames ==
    /\ call.op = "stack" => IsPushOf(E, call.pre, call.mode)
    /\ \A d \in Descriptors :
          /\ d.vars.stacked_vars = call.pre.stacked_vars \o <<call.pre.local_vars>>
          /\ call.step.vars = None =>
                /\ ~HasOver(call.step) => d.vars.local_vars = call.pre.local_vars
                /\ \A k \in DOMAIN call.pre.local_vars \ OverTargets(call.step) :
                      /\ k \in DOMAIN d.vars.local_vars
                      /\ d.vars.local_vars[k] = call.pre.local_vars[k]
                /\ DOMAIN d.vars.local_vars =
                      DOMAIN call.pre.local_vars \cup OverTargets(call.step)
          /\ call.step.vars # None =>
                /\ call.step.vars.v = <<>> =>
                      DOMAIN d.vars.local_vars = OverTargets(call.step)
                /\ DOMAIN d.vars.local_vars \subseteq
                      RawKeyNames(call.step.vars.v, call.pre)
                      \cup OverTargets(call.step)

\* C4 as stated: every descriptor of a sub-task step without vars has the
\* caller's local frame as its local frame and as its immediate parent frame,
\* and that of a step with an empty vars map has an empty local frame.
C4_AsStated ==
    /\ call.op = "stack" => IsPushOf(E, call.pre, call.mode)
    /\ \A d \in Descriptors :
          /\ call.step.vars = None =>
                /\ d.vars.local_vars = call.pre.local_vars
                /\ Last(d.vars.stacked_vars) = call.pre.local_vars
          /\ (call.step.vars # None /\ call.step.vars.v = <<>>) =>
                d.vars.local_vars = EmptyFrame

\* A step without vars and without over has produced a descriptor from a
\* caller whose local frame binds a key.
C4_Witness ==
    /\ call.op = "task_step"
    /\ call.step.vars = None
    /\ ~HasOver(call.step)
    /\ call.pre.local_vars # EmptyFrame
    /\ call.pre.stacked_vars # <<>>
    /\ Descriptors # {}
    /\ \A d \in Descriptors : d.vars.local_vars = call.pre.local_vars

\* stack_raw_variables has returned, and with an environment.
Pushed     == call.op = "stack_raw_variables"
PushedOk   == Pushed /\ ~IsError(ret.result)

\* C5: after stack_raw_variables(raw_vars, EmptyLocals), for every entry of
\* raw_vars whose key as written is bound in the immediate parent frame, the
\* new local frame binds that key to the parent's value and the entry's raw
\* definition has not been evaluated, whatever the other entries are.
C5_ParentOverrides ==
    (PushedOk /\ call.mode = "EmptyLocals") =>
        \A i \in DOMAIN call.raw_vars :
            LET keytoken == call.raw_vars[i][1]
            IN  keytoken \in DOMAIN call.pre.local_vars =>
                   /\ ~ret.trace[i].evaluated
                   /\ keytoken \in DOMAIN E.local_vars
                   /\ E.local_vars[keytoken] = call.pre.local_vars[keytoken]

\* The bindings the entries before entry j have inserted, as a frame; a later
\* entry overwrites an earlier one.
RECURSIVE InsertedFrame(_, _)
InsertedFrame(trace, j) ==
    IF j <= 1 THEN EmptyFrame
    ELSE IF trace[j - 1].inserted
    THEN Bind(trace[j - 1].key, trace[j - 1].value) @@ InsertedFrame(trace, j - 1)
    ELSE InsertedFrame(trace, j - 1)

\* What entry j is to see: the entries 1..j-1 and, below them, the stack.
VisibleEnv(j) ==
    [stacked_vars |-> Frames(call.pre),
     local_vars   |-> InsertedFrame(ret.trace, j)]

\* The tokens that evaluating an entry expands: those of its key and, once
\* the key is a string, those of a string value or of a plain command.
ValueTokens(raw) ==
    IF raw.t = "Json"
    THEN IF raw.value.t = "str" THEN TokenKeys(parse_all_elements(raw.value.s))
         ELSE {}
    ELSE IF raw.command.env = None /\ raw.command.dir = None
            /\ raw.command.if = None
         THEN TokenKeys(parse_all_elements(raw.command.entry))
              \cup TokenKeys(parse_all_elements(raw.command.cmd))
         ELSE {}

ExpandedTokens(entry, vs) ==
    TokenKeys(parse_all_elements(entry[1]))
    \cup IF evaluate_tokens_vs(entry[1], vs).t = "str"
         THEN ValueTokens(entry[2]) ELSE {}

\* Entry j expands a token that neither the stack nor an entry before it binds.
NamesUndefinedKey(j) ==
    \E k \in ExpandedTokens(call.raw_vars[j], VisibleEnv(j)) :
        ~IsBound(Frames(VisibleEnv(j)), k)

\* Entry j has been expanded against the entries before it and the stack.
ExpandedInOrder(j) ==
    LET key   == evaluate_tokens_to_string(call.raw_vars[j][1], VisibleEnv(j))
        value == RawVariable_evaluate(call.raw_vars[j][2], VisibleEnv(j))
    IN  IF IsError(key) THEN ret.trace[j] = Failed /\ ret.result = key
        ELSE IF IsError(value) THEN ret.trace[j] = Failed /\ ret.result = value
        ELSE ret.trace[j] = Computed(key.s, value)

\* C6 (amended): stack_raw_variables evaluates the raw map in one pass in
\* insertion order.  An entry whose key as written is bound in the immediate
\* parent frame is not evaluated.  Every other entry j has its key and value
\* expanded against the entries 1..j-1 already inserted plus the stack, and
\* a token it expands that names a key bound by no frame of the stack and by
\* no entry before j fails the call with an unknown-key error.
C6_SinglePassInOrder ==
    Pushed =>
        \A j \in DOMAIN ret.trace :
            /\ ret.trace[j].evaluated <=>
                  call.raw_vars[j][1] \notin DOMAIN call.pre.local_vars
            /\ ret.trace[j].evaluated =>
                  /\ ExpandedInOrder(j)
                  /\ NamesUndefinedKey(j) =>
                        /\ ret.result = Error("unknown key")
                        /\ j = Len(ret.trace)

\* Entry j has a token naming a key that entry j or a later entry of the map
\* defines, and that neither the stack nor an entry before j binds.
NamesLaterKey(j) ==
    \E k \in ExpandedTokens(call.raw_vars[j], VisibleEnv(j)) :
        /\ ~IsBound(Frames(VisibleEnv(j)), k)
        /\ \E i \in j..Len(call.raw_vars) : call.raw_vars[i][1] = k

\* C6 as stated: every entry j is expanded against the entries before it and
\* the stack, and a token of entry j that names a key defined only by entry j
\* or a later entry, and bound in no frame of the stack, fails the call with
\* an unknown-key error.
C6_AsStated ==
    Pushed =>
        \A j \in DOMAIN ret.trace :
            /\ ret.trace[j].evaluated => ExpandedInOrder(j)
            /\ NamesLaterKey(j) => ret.result = Error("unknown key")

\* The call has failed at an entry whose value names the key that only a
\* later entry of the map defines.
C6_Witness ==
    /\ Pushed
    /\ ret.result = Error("unknown key")
    /\ Len(ret.trace) < Len(call.raw_vars)
    /\ \E k \in ValueTokens(call.raw_vars[Len(ret.trace)][2]) :
          \E i \in DOMAIN call.raw_vars :
              /\ i > Len(ret.trace)
              /\ call.raw_vars[i][1] = k

-----------------------------------------------------------------------------
(* The executor session: a run of the task engine under a pool of           *)
(* `processes` permits.  A future is a task evaluation (prepare, then       *)
(* TaskConfig::evaluate) or the evaluation of one child of a parallel       *)
(* group.  The executor is single-threaded: a future runs from one await to *)
(* the next without interleaving, so a state holds every future at an       *)
(* await.  What a task's configuration holds is chosen as the run goes:     *)
(* which processes it asks for, which steps spawn sub-tasks or groups.      *)

MaxProcesses == 2   \* processes ranges over 1..MaxProcesses
MaxFutures   == 3   \* futures of a run
MaxSpawned   == 2   \* external processes of a run

\* The phases of prepare and TaskConfig::evaluate, in order.
Phases == <<"prepare", "cancel", "pre", "skip", "steps", "post">>
StepPhases == { "pre", "steps", "post" }
PhaseNo(pc) == CHOOSE i \in DOMAIN Phases : Phases[i] = pc

\* A future: st is ready (not polled yet), acquiring (awaiting
\* limiter.acquire()), running (awaiting command.output()), joining
\* (awaiting join_all), done (returned) or joined (returned and collected by
\* its parent); between two awaits it is idle, or passed after an unless
\* gate that exited with 0.  lock tells whether it holds a permit of the
\* limiter, err whether it has failed, sub how many sub-task descriptors it
\* has returned.
TaskFuture(parent) ==
    [kind |-> "task", parent |-> parent, pc |-> "prepare", st |-> "ready",
     lock |-> FALSE, err |-> FALSE, sub |-> 0]
StepFuture(parent) ==
    [kind |-> "step", parent |-> parent, pc |-> "step", st |-> "ready",
     lock |-> FALSE, err |-> FALSE, sub |-> 0]

\* The external processes a future asks for in a phase: raw-variable
\* commands (var) when a task is prepared, test gates (gate) where a task is
\* tested for cancelling and skipping, and in a step the commands of the
\* step and of its vars (cmd) and its test gates.
ClassesAt(pc) ==
    CASE pc = "prepare"              -> { "var" }
      [] pc \in { "cancel", "skip" } -> { "gate" }
      [] OTHER                       -> { "gate", "cmd" }

\* The phases a future that has resumed in r.pc can have its next await in.
PhasesFrom(r) ==
    IF r.kind = "step" \/ r.st = "passed" THEN { r.pc }
    ELSE { Phases[i] : i \in PhaseNo(r.pc)..Len(Phases) }

\* The future r after an error: the steps of a task are followed by its
\* post-steps, anything else returns the error.
Failure(r) ==
    IF r.kind = "task" /\ r.pc = "steps"
    THEN [r EXCEPT !.err = TRUE, !.pc = "post", !.st = "idle"]
    ELSE [r EXCEPT !.err = TRUE, !.st = "done"]

\* A future that has returned, with its result.
Returned(r, err, sub) ==
    [r EXCEPT !.st = "done", !.pc = "end", !.err = err, !.sub = sub]

ChildrenIn(futures, f) ==
    { c \in DOMAIN futures : futures[c].parent = f /\ futures[c].st # "joined" }
Children(f) == ChildrenIn(fut, f)

RECURSIVE SumSub(_, _)
SumSub(futures, S) ==
    IF S = {} THEN 0
    ELSE LET c == CHOOSE x \in S : TRUE
         IN  futures[c].sub + SumSub(futures, S \ {c})

\* The futures a run can still spawn: the descriptors that children of a
\* parallel group have returned are spawned when the group is joined.
Room(futures) ==
    MaxFutures - Len(futures)
    - SumSub(futures, { c \in DOMAIN futures : futures[c].st = "done" })

RECURSIVE Spawn(_, _, _)
Spawn(futures, n, new) ==
    IF n = 0 THEN futures ELSE Spawn(Append(futures, new), n - 1, new)

ExInit ==
    /\ processes \in 1..MaxProcesses
    /\ permits = processes
    /\ fut = <<TaskFuture(0)>>
    /\ spawned = 0

\* Future f, resumed as r among futures, runs to its next await: it asks
\* for a permit to run a process, or a step of it spawns sub-tasks or the
\* children of a parallel group and joins them, or it returns.
Proceed(f, r, futures) ==
    \/ /\ r.st = "done"
       /\ fut' = [futures EXCEPT ![f] = Returned(r, r.err, 0)]
       /\ UNCHANGED spawned
    \/ /\ r.st # "done"
       /\ spawned < MaxSpawned
       /\ \E pc \in PhasesFrom(r) :
             fut' = [futures EXCEPT ![f] = [r EXCEPT !.pc = pc, !.st = "acquiring"]]
       /\ spawned' = spawned + 1
    \/ /\ r.st = "idle" /\ r.kind = "task"
       /\ \E pc \in PhasesFrom(r) \cap StepPhases, w \in 1..Room(futures),
             new \in { TaskFuture(f), StepFuture(f) } :
             fut' = Spawn([futures EXCEPT ![f] =
                              [r EXCEPT !.pc = pc, !.st = "joining"]],
                          w, new)
       /\ UNCHANGED spawned
    \/ /\ r.st = "idle" /\ r.kind = "task"
       /\ \E canceled \in { c \in BOOLEAN : c => PhaseNo(r.pc) <= PhaseNo("cancel") } :
             fut' = [futures EXCEPT ![f] = Returned(r, r.err \/ canceled, 0)]
       /\ UNCHANGED spawned
    \/ /\ r.st = "passed"
       /\ fut' = [futures EXCEPT ![f] = Returned(r, TRUE, 0)]
       /\ UNCHANGED spawned
    \/ /\ r.st = "idle" /\ r.kind = "step"
       /\ \E n \in { 0, 1 } :
             /\ n <= Room(futures)
             /\ fut' = [futures EXCEPT ![f] = Returned(r, r.err, n)]
       /\ UNCHANGED spawned

\* A future is polled for the first time.
Start(f) ==
    /\ fut[f].st = "ready"
    /\ Proceed(f, [fut[f] EXCEPT !.st = "idle"], fut)
    /\ UNCHANGED <<processes, permits, tokVars, envVars, ctxVars>>

\* A variant of Acquire that does not wait for a permit.
Acquire_Unguarded(f) ==
    /\ fut[f].st = "acquiring"
    /\ permits' = permits - 1
    /\ fut' = [fut EXCEPT ![f].st = "running", ![f].lock = TRUE]
    /\ UNCHANGED <<processes, spawned, tokVars, envVars, ctxVars>>

\* limiter.acquire() resolves and the process is started.
Acquire(f) ==
    /\ fut[f].st = "acquiring"
    /\ permits > 0
    /\ permits' = permits - 1
    /\ fut' = [fut EXCEPT ![f].st = "running", ![f].lock = TRUE]
    /\ UNCHANGED <<processes, spawned, tokVars, envVars, ctxVars>>

\* The future r after its process, one of class cls, has ended with code:
\* "zero", "nonzero" or "error" (the process could not be run).
AfterExit(r, cls, code, forced) ==
    LET idle == [r EXCEPT !.st = "idle"]
    IN  CASE code = "error" -> Failure(r)
          [] code # "error" /\ cls # "gate" ->
                IF code = "zero" THEN idle ELSE Failure(r)
          [] code # "error" /\ cls = "gate" /\ r.pc = "cancel" ->
                IF code = "zero" THEN [r EXCEPT !.st = "passed"]
                ELSE [idle EXCEPT !.pc = "pre"]
          [] code # "error" /\ cls = "gate" /\ r.pc = "skip" ->
                IF code = "zero" THEN idle
                ELSE IF forced THEN [idle EXCEPT !.pc = "steps"]
                ELSE [r EXCEPT !.st = "done"]
          [] OTHER -> idle

\* A variant of Exit that keeps the permit: the guard is not dropped.
Exit_KeepsLock(f) ==
    /\ fut[f].st = "running"
    /\ \E cls \in ClassesAt(fut[f].pc), code \in { "zero", "nonzero", "error" },
          forced \in BOOLEAN :
          Proceed(f, AfterExit(fut[f], cls, code, forced), fut)
    /\ UNCHANGED <<processes, permits, tokVars, envVars, ctxVars>>

\* A variant of Exit where the permit is not given back when the process
\* could not be run.
Exit_LeaksOnError(f) ==
    /\ fut[f].st = "running"
    /\ \E cls \in ClassesAt(fut[f].pc), code \in { "zero", "nonzero", "error" },
          forced \in BOOLEAN :
          /\ permits' = IF code = "error" THEN permits ELSE permits + 1
          /\ Proceed(f, AfterExit([fut[f] EXCEPT !.lock = FALSE], cls, code, forced),
                     fut)
    /\ UNCHANGED <<processes, tokVars, envVars, ctxVars>>

\* command.output() resolves and the permit is dropped.
Exit(f) ==
    /\ fut[f].st = "running"
    /\ permits' = permits + 1
    /\ \E cls \in ClassesAt(fut[f].pc), code \in { "zero", "nonzero", "error" },
          forced \in BOOLEAN :
          Proceed(f, AfterExit([fut[f] EXCEPT !.lock = FALSE], cls, code, forced),
                  fut)
    /\ UNCHANGED <<processes, tokVars, envVars, ctxVars>>

\* join_all resolves: an error of a child is the error of the step; the
\* descriptors the children of a parallel group have returned are spawned
\* and joined in turn.
Join(f) ==
    /\ fut[f].st = "joining"
    /\ \A c \in Children(f) : fut[c].st = "done"
    /\ LET joined == [c \in DOMAIN fut |->
                         IF c \in Children(f)
                         THEN [fut[c] EXCEPT !.st = "joined", !.err = FALSE, !.sub = 0]
                         ELSE fut[c]]
           failed == \E c \in Children(f) : fut[c].err
           tasks  == SumSub(fut, Children(f))
       IN  IF failed THEN Proceed(f, Failure(fut[f]), joined)
           ELSE IF tasks > 0
           THEN fut' = Spawn(joined, tasks, TaskFuture(f)) /\ UNCHANGED spawned
           ELSE Proceed(f, [fut[f] EXCEPT !.st = "idle"], joined)
    /\ UNCHANGED <<processes, permits, tokVars, envVars, ctxVars>>

Init == TokInit /\ EnvIdle /\ ExInit /\ CtxIdle

Next ==
    \/ \E f \in DOMAIN fut : Start(f)
    \/ \E f \in DOMAIN fut : Acquire(f)
    \/ \E f \in DOMAIN fut : Exit(f)
    \/ \E f \in DOMAIN fut : Join(f)

Spec == Init /\ [][Next]_vars

\* The executor polls a future that can go on, and a process that has been
\* started ends.
FairSpec == Spec /\ WF_vars(Next)

-----------------------------------------------------------------------------
(* Properties of the executor *)

\* The futures whose external process is running, and those holding a permit.
Running == { f \in DOMAIN fut : fut[f].st = "running" }
Holding == { f \in DOMAIN fut : fut[f].lock }

\* C1: in every reachable state of a run started with processes = N, the
\* number of external processes that are running (command steps,
\* raw-variable commands and test gates together, over all tasks and
\* parallel-group children) is at most N.
C1_AtMostNProcesses ==
    /\ Cardinality(Running) <= processes
    /\ Running \subseteq Holding
    /\ permits + Cardinality(Holding) = processes

\* Every permit is taken by a running process while another future waits
\* for a permit to run a process of another kind.
C1_Witness ==
    /\ Cardinality(Running) = processes
    /\ \E f \in Running, g \in DOMAIN fut :
          /\ fut[g].st = "acquiring"
          /\ ClassesAt(fut[g].pc) \cap ClassesAt(fut[f].pc) = {}

Done == fut # <<>> /\ fut[1].st = "done"

NoPermitWhileJoining ==
    \A f \in DOMAIN fut : fut[f].st = "joining" => ~fut[f].lock

\* C2: no task holds a permit while it waits to join its sub-tasks or its
\* parallel-group children, and every run with processes >= 1, a finite
\* spawn graph and processes that all end comes to the point where the
\* entry task has returned a result or an error.
C2_JoinsWithoutPermit == [](NoPermitWhileJoining) /\ <>Done

\* With one permit, a task waits to join two children, one of which runs a
\* process while the other waits for the permit.
C2_Witness ==
    /\ processes = 1
    /\ \E f, c, d \in DOMAIN fut :
          /\ fut[f].st = "joining"
          /\ fut[c].parent = f /\ fut[c].st = "running"
          /\ fut[d].parent = f /\ fut[d].st = "acquiring"

-----------------------------------------------------------------------------
(* The run context session: a root context and the contexts derived from it *)
(* by TaskConfig::prepare, one per nesting level.                           *)

MaxDepth == 3

\* RunContext::new for each forcing state; silent is set by a task or not.
RootContexts ==
    { [RunContext_default EXCEPT !.forcing = f, !.silent = s] :
        f \in ForcingContexts, s \in BOOLEAN }

\* TaskConfig::prepare: the context of a task that declares the
\* forcing behaviour child_behavior is derived from its caller's.
ChildContext ==
    /\ Len(lineage) < MaxDepth
    /\ \E child_behavior \in ForcingBehaviours :
          /\ lineage' = Append(lineage, <<run_context, child_behavior>>)
          /\ run_context' = child_context(run_context, child_behavior)
    /\ UNCHANGED <<tokVars, envVars, exVars>>

InitCtx == run_context \in RootContexts /\ lineage = <<>>
           /\ TokInit /\ EnvIdle /\ ExIdle
NextCtx == ChildContext
SpecCtx == InitCtx /\ [][NextCtx]_vars

\* The context derived at level i of the lineage.
Derived(i) == IF i = Len(lineage) THEN run_context ELSE lineage[i + 1][1]

\* The contexts of the lineage, the current one last.
Lineage == [i \in 1..(Len(lineage) + 1) |-> Derived(i - 1)]

\* The table of forcing states: <<parent, behaviour, child>>.
ForcingTable ==
    { <<"EverythingForced", b, "EverythingForced">> : b \in ForcingBehaviours }
    \cup { <<"ForcedAsMainTask", b, "ExplicitlyForced">> : b \in ForcingBehaviours }
    \cup { <<"ExplicitlyForced", "Always", "ExplicitlyForced">>,
           <<"ExplicitlyForced", "Inherit", "ExplicitlyForced">>,
           <<"ExplicitlyForced", "Never", "NotForced">>,
           <<"ParentIsForced", "Always", "ExplicitlyForced">>,
           <<"ParentIsForced", "Inherit", "ParentIsForced">>,
           <<"ParentIsForced", "Never", "NotForced">>,
           <<"NotForced", "Always", "ExplicitlyForced">>,
           <<"NotForced", "Inherit", "NotForced">>,
           <<"NotForced", "Never", "NotForced">> }

\* C11: every derivation of a child context follows the table of forcing
\* states, for each of the five parent states and the three behaviours, and
\* leaves env, dir and silent as they were; is_forced is true exactly for
\* EverythingForced, ForcedAsMainTask and ExplicitlyForced.
C11_ChildContextTable ==
    /\ \A i \in 1..Len(lineage) :
          /\ <<lineage[i][1].forcing, lineage[i][2], Derived(i).forcing>>
                \in ForcingTable
          /\ Derived(i) = [lineage[i][1] EXCEPT !.forcing = Derived(i).forcing]
    /\ \A i \in 1..(Len(lineage) + 1) :
          is_forced(Lineage[i])
            <=> Lineage[i].forcing \in
                  { "EverythingForced", "ForcedAsMainTask", "ExplicitlyForced" }

\* A ParentIsForced context handed on through Inherit, then Always, then
\* Never: three rows of the table in one lineage.
C11_Witness ==
    /\ Len(lineage) = 3
    /\ lineage[1][1].forcing = "ParentIsForced"
    /\ <<lineage[1][2], lineage[2][2], lineage[3][2]>>
         = <<"Inherit", "Always", "Never">>
    /\ ~is_forced(Lineage[2]) /\ is_forced(Lineage[3]) /\ ~is_forced(run_context)

\* The behaviours of the derivations from level i to level j of the lineage.
BehavioursBetween(i, j) == { lineage[k][2] : k \in (i + 1)..j }

\* C12: once a context is forced, every context derived from it through
\* tasks whose behaviours are all Always or Inherit is forced too, and every
\* context derived from an EverythingForced one is forced whatever the
\* behaviours.
C12_ForcedIsHandedOn ==
    \A i \in 0..Len(lineage) : \A j \in i..Len(lineage) :
        /\ is_forced(Derived(i))
        /\ \/ BehavioursBetween(i, j) \subseteq { "Always", "Inherit" }
           \/ Derived(i).forcing = "EverythingForced"
        => is_forced(Derived(j))

\* C12 as stated: only the descendant's own behaviour matters.
C12_AsStated ==
    \A i \in 0..Len(lineage) : \A j \in (i + 1)..Len(lineage) :
        /\ is_forced(Derived(i))
        /\ lineage[j][2] \in { "Always", "Inherit" }
        => is_forced(Derived(j))

\* A forced root handed on through an inheriting task and then a task that
\* always forces.
C12_Witness ==
    /\ Len(lineage) = 2
    /\ lineage[1][1].forcing = "ExplicitlyForced"
    /\ <<lineage[1][2], lineage[2][2]>> = <<"Inherit", "Always">>
    /\ is_forced(Lineage[2]) /\ is_forced(run_context)

-----------------------------------------------------------------------------
(* The gate session: test_run_gates on a gate list in an environment *)

MaxGates == 3

\* The environments of the session: nothing bound; a bound to a number and b
\* to the text a; a bound to true.
GateEnvs ==
    { VariableSet_new,
      insert(insert(VariableSet_new, KeyA, JNum(9)), KeyB, JStr(KeyA)),
      insert(insert(VariableSet_new, KeyA, JBool(TRUE)), KeyB, JStr(KeyA)) }

\* The gates of the session: a token against a literal, with blanks around
\* the `=`; a token against the digit its key may be bound to; a bare
\* token; a statement with two `=`; test gates that exit with 0 and with 1,
\* one of them with a token in its statement.
GateStatements ==
    { Internal(TokenB \o <<" ", "=", " ", "a">>),
      Internal(TokenA \o <<"=", "9">>),
      Internal(TokenA),
      Internal(<<"a", "=", "a", "=", "a">>),
      Test(<<"t">>, 0),
      Test(TokenB, 1) }

RECURSIVE GateListsOfLen(_)
GateListsOfLen(n) ==
    IF n = 0 THEN { <<>> }
    ELSE { Append(l, g) : l \in GateListsOfLen(n - 1), g \in GateStatements }

\* Option<&RunGates>: absent, or a list of at most MaxGates gates.
GateLists ==
    { None } \cup { Some(l) : l \in UNION { GateListsOfLen(n) : n \in 0..MaxGates } }

TestRunGates ==
    /\ call.op = "new"
    /\ \E statements \in GateLists :
          /\ call' = [op |-> "test_run_gates", statements |-> statements]
          /\ ret' = GateWalk(statements, E)
    /\ UNCHANGED <<E, tokVars, exVars, ctxVars>>

InitGate == E \in GateEnvs /\ call = [op |-> "new"] /\ ret = NoOutput
            /\ TokInit /\ ExIdle /\ CtxIdle
NextGate == TestRunGates
SpecGate == InitGate /\ [][NextGate]_vars

\* The gates handed to the last call of test_run_gates.
Gates == IF call.statements = None THEN <<>> ELSE call.statements.v

\* What gate i (counted from one) evaluates to in the environment.
Outcome(i) == RunGate_evaluate(Gates[i], E)
Passes(i)  == Outcome(i) = None
Fails(i)   == ~IsError(Outcome(i)) /\ Outcome(i) # None

\* The gates that do not pass and the first of them.
NotPassing == { i \in DOMAIN Gates : ~Passes(i) }
FirstNotPassing == CHOOSE i \in NotPassing : \A j \in NotPassing : i <= j

CountChar(s, c) == Cardinality({ i \in DOMAIN s : s[i] = c })

\* C14 as stated: an internal gate with more than one `=` that the walk
\* evaluates is rejected with the gate syntax error.
C14_SecondEqualsIsSyntaxError ==
    call.op = "test_run_gates" =>
        \A n \in DOMAIN ret.evaluated :
            LET i == ret.evaluated[n] + 1
            IN  /\ Gates[i].t = "Internal"
                /\ CountChar(Gates[i].entry, "=") > 1
                => Outcome(i) = Error("gate syntax")

\* The two sides of an internal gate with at most one `=`, trimmed.
Lhs(entry) == Trim(Take(entry, FindChar(entry, "=", 1) - 1))
Rhs(entry) == Trim(Drop(entry, FindChar(entry, "=", 1)))

\* Both expansions succeed and give the same JSON value.
EqualExpansions(x, y) == ~IsError(x) /\ ~IsError(y) /\ x = y

\* C15: an internal gate with one `=` passes exactly when the expansions of
\* its trimmed sides are the same JSON value, type included, and an internal
\* gate without `=` passes exactly when its expansion is the boolean true.
C15_InternalGateComparesJson ==
    call.op = "test_run_gates" =>
        \A n \in DOMAIN ret.evaluated :
            LET i == ret.evaluated[n] + 1
                entry == Gates[i].entry
            IN  Gates[i].t = "Internal" =>
                  /\ CountChar(entry, "=") = 1 =>
                        (Passes(i) <=>
                            EqualExpansions(evaluate_tokens_vs(Lhs(entry), E),
                                            evaluate_tokens_vs(Rhs(entry), E)))
                  /\ CountChar(entry, "=") = 0 =>
                        (Passes(i) <=>
                            evaluate_tokens_vs(Trim(entry), E) = JBool(TRUE))

\* With a bound to the number 9 and b to the text a: the gate {{b}} = a
\* passes and the gate {{a}}=9 fails, a number against a text.
C15_Witness ==
    /\ call.op = "test_run_gates"
    /\ get(E, KeyA) = JNum(9)
    /\ Len(Gates) = 2
    /\ Gates[1] = Internal(TokenB \o <<" ", "=", " ", "a">>)
    /\ Gates[2] = Internal(TokenA \o <<"=", "9">>)
    /\ ret.evaluated = <<0, 1>>
    /\ ret.output.t = "some" /\ ret.output.v[1] = 1

-----------------------------------------------------------------------------
(* The task session: evaluate_main_task prepares the main task of a        *)
(* configuration against the root context and evaluates it.                *)

MaxTime == 2

\* The clock as get_earliest_output reads it.
Now == MaxTime

PathI == <<"i">>
PathO == <<"o">>

\* The file systems: each of the two paths is missing or has a modification
\* time that is not later than the clock.
FileSystems == UNION { [paths -> 1..MaxTime] : paths \in SUBSET { PathI, PathO } }

PassingGate == Test(<<"t">>, 0)
FailingGate == Test(<<"t">>, 1)

OkStep   == Command(<<"c">>, 0, <<"x">>)
FailStep == Command(<<"c">>, 1, <<>>)
SubStep(name) ==
    [task |-> name, vars |-> None, env |-> None, dir |-> None, if |-> None,
     over |-> None, silent |-> FALSE]

\* A task with one step and nothing else declared.
PlainTask ==
    [label |-> None, presteps |-> None, steps |-> <<OkStep>>, poststeps |-> None,
     inputs |-> None, outputs |-> None, if |-> None, unless |-> None,
     silent |-> FALSE, vars |-> None, forcing |-> "Inherit", env |-> None,
     dir |-> None]

TaskS == <<"s">>
TaskC == <<"c">>

\* DigConfig.tasks: the sub-tasks the main task may run.  Task c has all of
\* its `unless` gates passing.
Config ==
    TaskS :> PlainTask
    @@ TaskC :> [PlainTask EXCEPT !.unless = Some(<<PassingGate>>),
                                  !.presteps = Some(<<OkStep>>),
                                  !.poststeps = Some(<<OkStep>>)]

TaskUnless ==
    { None, Some(<<>>), Some(<<PassingGate, Internal(<<"a", "=", "a">>)>>),
      Some(<<PassingGate, FailingGate>>) }
TaskIfs      == { None, Some(<<FailingGate>>) }
TaskInputs   == { None, Some(<<PathI>>) }
TaskOutputs  == { None, Some(<<PathO>>) }
TaskPreSteps == { None, Some(<<OkStep>>) }
TaskPostSteps == { None, Some(<<OkStep>>), Some(<<FailStep>>) }
TaskSteps ==
    { <<OkStep>>, <<FailStep>>, <<SubStep(TaskS), OkStep>>, <<SubStep(TaskC), OkStep>> }

\* The tasks with gates, inputs and outputs.
GatedTasks ==
    { [PlainTask EXCEPT !.unless = u, !.if = g, !.inputs = i, !.outputs = o,
                        !.presteps = pre, !.steps = st, !.poststeps = post,
                        !.forcing = f] :
        u \in TaskUnless, g \in TaskIfs, i \in TaskInputs, o \in TaskOutputs,
        pre \in TaskPreSteps, st \in TaskSteps, post \in TaskPostSteps,
        f \in ForcingBehaviours }

\* A step that stores its output, 19, under a, and a step whose command is
\* `e {{a}}`.
StoreStep == [Command(<<"c">>, 0, <<"1", "9">>) EXCEPT !.store = Some(KeyA)]
UseStep   == Command(<<"e", " ">> \o TokenA, 0, <<"y">>)

\* The tasks with lists of steps that store and use a value.
ListPreSteps  == { None, Some(<<StoreStep>>), Some(<<OkStep, UseStep>>) }
\* Steps that store the empty output under b and the output x under r.
KeyR       == <<"r">>
StoreEmpty == [Command(<<"c">>, 0, <<>>) EXCEPT !.store = Some(KeyB)]
StoreRaw   == [Command(<<"c">>, 0, <<"x">>) EXCEPT !.store = Some(KeyR)]

ListSteps ==
    { <<StoreStep, UseStep>>, <<UseStep>>, <<FailStep, OkStep>>,
      <<SubStep(TaskS), StoreStep>>, <<SubStep(TaskC), OkStep>>,
      <<StoreEmpty, StoreStep, StoreRaw>>,
      <<Parallel(<<StoreStep, OkStep>>), UseStep>> }
ListPostSteps == { None, Some(<<UseStep>>), Some(<<FailStep, UseStep>>) }
ListTasks ==
    { [PlainTask EXCEPT !.presteps = pre, !.steps = st, !.poststeps = post] :
        pre \in ListPreSteps, st \in ListSteps, post \in ListPostSteps }

\* The tasks with a pre-step that fails, alone or between a step that
\* stores and a step that would pass, and with or without a gate, inputs
\* and outputs for the test for skipping.
FailingPreSteps == { <<FailStep>>, <<StoreStep, FailStep, OkStep>> }
PreStepTasks ==
    { [PlainTask EXCEPT !.presteps = Some(pre), !.if = g, !.inputs = i,
                        !.outputs = o, !.poststeps = post, !.forcing = f] :
        pre \in FailingPreSteps, g \in TaskIfs, i \in TaskInputs,
        o \in TaskOutputs, post \in { None, Some(<<OkStep>>) },
        f \in { "Never", "Always" } }

MainTasks == GatedTasks \cup ListTasks \cup PreStepTasks

LabelMain == <<"m", "a", "i", "n">>

\* The root contexts of evaluate_main_task: --force-all, --force-first, or
\* neither.
MainContexts ==
    { [RunContext_default EXCEPT !.forcing = f] :
        f \in { "EverythingForced", "ForcedAsMainTask", "NotForced" } }

\* evaluate_main_task: prepare, then evaluate without capturing the output.
RunTask ==
    /\ call.op = "new"
    /\ \E main_task \in MainTasks, files \in FileSystems :
       \E task_data \in { TaskConfig_prepare(main_task, LabelMain, E,
                                             "EmptyLocals", run_context) } :
          /\ call' = [op |-> "run", task |-> main_task, files |-> files,
                      data |-> task_data]
          /\ ret' = IF IsError(task_data) THEN Run(task_data, E, <<>>)
                    ELSE TaskConfig_evaluate(main_task, task_data,
                            World(Config, FALSE, files, Now), <<>>)
    /\ UNCHANGED <<E, run_context, lineage, tokVars, exVars>>

InitTask == /\ E = VariableSet_new /\ call = [op |-> "new"] /\ ret = NoOutput
            /\ run_context \in MainContexts /\ lineage = <<>>
            /\ TokInit /\ ExIdle
NextTask == RunTask
SpecTask == InitTask /\ [][NextTask]_vars

-----------------------------------------------------------------------------
(* Properties of the task engine *)

\* The main task of the last run, as prepared, and what the run did.
MainTask == call.task
MainData == call.data
DidLog(label, event) ==
    \E n \in DOMAIN ret.log : ret.log[n] = Logged(label, event)
StepsEvaluated(label, phase) ==
    { ret.log[n].step_i : n \in { m \in DOMAIN ret.log :
                                    /\ ret.log[m].event = "step"
                                    /\ ret.log[m].label = label
                                    /\ ret.log[m].phase = phase } }
NoStepEvaluated(label, phases) ==
    \A phase \in phases : StepsEvaluated(label, phase) = {}

\* The pre-steps of the main task, and the first of them that fails
\* (counted from zero), if one does.
PreSteps == IF MainTask.presteps = None THEN <<>> ELSE MainTask.presteps.v
FailingPre == { i \in DOMAIN PreSteps : PreSteps[i] = FailStep }
FirstFailingPre == (CHOOSE i \in FailingPre : \A j \in FailingPre : i <= j) - 1

\* The evaluation comes to the test for skipping: the task is not canceled
\* and none of its pre-steps fails.
SkipTestReached == ~DidLog(LabelMain, "Canceled") /\ FailingPre = {}

\* Every gate of the list passes in the environment vs.
AllGatesPass(gates, vs) ==
    \A i \in DOMAIN gates : RunGate_evaluate(gates[i], vs) = None

\* The run ended with the error of a canceled task.
CanceledError == ret.result = Error("task canceled")

\* C16: a task is canceled exactly when it declares an `unless` list and
\* every gate of the list passes; a task without the list is not canceled,
\* and with a failing gate in the list the task goes on to its pre-steps.
C16_CanceledIffAllUnlessPass ==
    call.op = "run" =>
        /\ DidLog(LabelMain, "Canceled")
             <=> /\ MainTask.unless # None
                 /\ AllGatesPass(MainTask.unless.v, MainData.vars)
        /\ MainTask.unless = None => ~DidLog(LabelMain, "Canceled")
        /\ ~DidLog(LabelMain, "Canceled") /\ MainTask.presteps # None
             => 0 \in StepsEvaluated(LabelMain, "presteps")

\* A task whose two `unless` gates pass is canceled; its pre-steps exist.
C16_Witness ==
    /\ call.op = "run"
    /\ MainTask.unless = Some(<<PassingGate, Internal(<<"a", "=", "a">>)>>)
    /\ MainTask.presteps # None
    /\ DidLog(LabelMain, "Canceled")
    /\ CanceledError

\* C17: a canceled task evaluates none of its pre-steps, steps and
\* post-steps, and the task's evaluation is an error; the step loop that
\* dispatched a canceled sub-task evaluates no further step and fails:
\* SUCCESS is bound to false, the caller logs that the task failed, and the
\* cancellation is the error the caller returns unless its post-steps
\* fail as well.
C17_CanceledIsAnError ==
    call.op = "run" =>
        /\ DidLog(LabelMain, "Canceled") =>
              /\ NoStepEvaluated(LabelMain, { "presteps", "steps", "poststeps" })
              /\ CanceledError
        /\ DidLog(TaskC, "Canceled") =>
              /\ NoStepEvaluated(TaskC, { "presteps", "steps", "poststeps" })
              /\ StepsEvaluated(LabelMain, "steps") = { 0 }
              /\ get(ret.vars, KeySuccess) = JBool(FALSE)
              /\ IsError(ret.result)
              /\ \/ DidLog(LabelMain, "Task failed") /\ CanceledError
                 \/ DidLog(LabelMain, "Task failed, and then post-steps failed as well")

\* The main task dispatched the sub-task c, which was canceled; the main
\* task's post-steps ran after that.
C17_Witness ==
    /\ call.op = "run"
    /\ MainTask.steps = <<SubStep(TaskC), OkStep>>
    /\ MainTask.poststeps # None
    /\ DidLog(LabelMain, "Begin") /\ DidLog(TaskC, "Canceled")
    /\ StepsEvaluated(LabelMain, "poststeps") = { 0 }
    /\ CanceledError

\* The modification times of the run: the latest of the inputs and the
\* earliest of the outputs that exist, the clock if there is none.
Exist(paths) == \A n \in DOMAIN paths : paths[n] \in DOMAIN call.files
LatestInput ==
    CHOOSE t \in 0..MaxTime :
        /\ t = UNIX_EPOCH \/ \E n \in DOMAIN MainTask.inputs.v :
                                call.files[MainTask.inputs.v[n]] = t
        /\ \A n \in DOMAIN MainTask.inputs.v :
                call.files[MainTask.inputs.v[n]] <= t
OutputTimes ==
    { Now } \cup
    (IF MainTask.outputs = None THEN {}
     ELSE { call.files[MainTask.outputs.v[n]] :
              n \in { m \in DOMAIN MainTask.outputs.v :
                        MainTask.outputs.v[m] \in DOMAIN call.files } })
EarliestOutput == CHOOSE t \in OutputTimes : \A u \in OutputTimes : t <= u

Forced ==
    MainData.context.forcing
        \in { "EverythingForced", "ForcedAsMainTask", "ExplicitlyForced" }

\* The inputs and the outputs of the task are declared and exist, and each
\* output is newer than each input.
OutputsNewer ==
    /\ MainTask.inputs # None /\ Exist(MainTask.inputs.v)
    /\ MainTask.outputs # None /\ Exist(MainTask.outputs.v)
    /\ EarliestOutput > LatestInput

FreshnessChecked ==
    /\ MainTask.inputs # None /\ Exist(MainTask.inputs.v)
    /\ MainTask.if = None \/ AllGatesPass(MainTask.if.v, MainData.vars)

\* C19: for a task that declares inputs, the freshness check gives the skip
\* reason "outputs up to date" exactly when the earliest output is strictly
\* later than the latest input; with equal times the task, which reaches
\* the test once its pre-steps have passed, is not skipped.
C19_UpToDateIffStrictlyLater ==
    call.op = "run" /\ FreshnessChecked =>
        /\ check_skip_state(MainTask, MainData.vars, call.files, Now)
               = Some(OutputsUpToDate)
             <=> EarliestOutput > LatestInput
        /\ ~Forced /\ SkipTestReached
             => (DidLog(LabelMain, "Skipped") <=> EarliestOutput > LatestInput)

\* C19 as stated: equality counts as up to date.
C19_AsStated ==
    call.op = "run" /\ FreshnessChecked =>
        /\ check_skip_state(MainTask, MainData.vars, call.files, Now)
               = Some(OutputsUpToDate)
             <=> EarliestOutput >= LatestInput
        /\ ~Forced /\ SkipTestReached
             => (DidLog(LabelMain, "Skipped") <=> EarliestOutput >= LatestInput)

\* Input and output of the same time: the task is not skipped and its steps
\* are evaluated.
C19_Witness ==
    /\ call.op = "run" /\ FreshnessChecked /\ ~Forced
    /\ MainTask.outputs # None /\ Exist(MainTask.outputs.v)
    /\ EarliestOutput = LatestInput
    /\ ~DidLog(LabelMain, "Skipped")
    /\ 0 \in StepsEvaluated(LabelMain, "steps")

\* The skip check of the run finds a reason to skip.
SkipReasonExists ==
    /\ SkipTestReached
    /\ With(check_skip_state(MainTask, MainData.vars, call.files, Now),
            LAMBDA skip_reason : ~IsError(skip_reason) /\ skip_reason # None)

\* C20: when a skip reason exists for a task that is not canceled and
\* whose pre-steps pass, a forced task is not skipped and its
\* steps are evaluated, and a task that is not forced is skipped: none of
\* its steps and post-steps is evaluated and the run is a success.
C20_ForcedIsNotSkipped ==
    call.op = "run" /\ SkipReasonExists =>
        IF Forced
        THEN /\ ~DidLog(LabelMain, "Skipped")
             /\ DidLog(LabelMain, "Begin")
             /\ 0 \in StepsEvaluated(LabelMain, "steps")
        ELSE /\ DidLog(LabelMain, "Skipped")
             /\ NoStepEvaluated(LabelMain, { "steps", "poststeps" })
             /\ ret.result = None

\* A forced task whose run-if gate fails and whose output is newer than its
\* input evaluates its step and its post-step.
C20_Witness ==
    /\ call.op = "run" /\ SkipReasonExists /\ Forced
    /\ MainTask.if = Some(<<FailingGate>>) /\ OutputsNewer
    /\ MainTask.poststeps # None
    /\ StepsEvaluated(LabelMain, "steps") = { 0 }
    /\ StepsEvaluated(LabelMain, "poststeps") = { 0 }

\* The entries of the run's log for step step_i of a list of a task, and the
\* entries for a line the task logged.
StepEntries(label, phase, step_i) ==
    { n \in DOMAIN ret.log : /\ ret.log[n].event = "step"
                             /\ ret.log[n].label = label
                             /\ ret.log[n].phase = phase
                             /\ ret.log[n].step_i = step_i }
LineEntries(label, event) ==
    { n \in DOMAIN ret.log : ret.log[n] = Logged(label, event) }

\* The main steps of the task succeeded, by the line the task logged last.
MainStepsSucceeded ==
    \/ DidLog(LabelMain, "Finished")
    \/ DidLog(LabelMain, "Task succeeded, but post-steps failed")
MainStepsFailed ==
    \/ DidLog(LabelMain, "Task failed")
    \/ DidLog(LabelMain, "Task failed, and then post-steps failed as well")

\* C21: once a task has begun its main steps, its first post-step, if it
\* declares post-steps, is evaluated exactly once and after every main step,
\* whether the main steps succeeded or failed, and the environment the
\* post-step is evaluated against binds SUCCESS in the local frame to true
\* when the main steps succeeded and to false when they failed.
C21_PostStepsSeeSuccess ==
    call.op = "run" /\ DidLog(LabelMain, "Begin") /\ MainTask.poststeps # None
        => /\ Cardinality(StepEntries(LabelMain, "poststeps", 0)) = 1
           /\ MainStepsSucceeded # MainStepsFailed
           /\ \A n \in StepEntries(LabelMain, "poststeps", 0) :
                 /\ \A m \in DOMAIN ret.log :
                       ret.log[m].phase = "steps" /\ ret.log[m].label = LabelMain
                          => m < n
                 /\ \A m \in LineEntries(LabelMain, "Begin") : m < n
                 /\ KeySuccess \in DOMAIN ret.log[n].vars.local_vars
                 /\ ret.log[n].vars.local_vars[KeySuccess]
                        = JBool(MainStepsSucceeded)

\* The main task's sub-task c is canceled, so that the main steps fail at
\* their first step; the post-step is evaluated and sees SUCCESS = false.
C21_Witness ==
    /\ call.op = "run"
    /\ MainTask.steps = <<SubStep(TaskC), OkStep>>
    /\ MainTask.poststeps = Some(<<OkStep>>)
    /\ StepsEvaluated(LabelMain, "steps") = { 0 }
    /\ \E n \in StepEntries(LabelMain, "poststeps", 0) :
          ret.log[n].vars.local_vars[KeySuccess] = JBool(FALSE)
    /\ DidLog(LabelMain, "Task failed")

\* The world of the run, and the outcomes of the main steps and of the
\* post-steps of the main task, each list evaluated against the environment
\* that the run evaluated its first step against.
RunWorld == World(Config, FALSE, call.files, Now)
ListOutcome(steps, phase) ==
    LET n == CHOOSE m \in StepEntries(LabelMain, phase, 0) : TRUE
    IN  evaluate_steps(steps, [MainData EXCEPT !.vars = ret.log[n].vars],
                       RunWorld, <<>>, phase).result
StepOutcome     == ListOutcome(MainTask.steps, "steps")
PostStepOutcome == ListOutcome(MainTask.poststeps.v, "poststeps")

\* C22: of a task that ran its steps and its post-steps, the evaluation
\* returns the error of the post-steps whenever the post-steps failed,
\* whether the steps succeeded or failed as well, and the error of the
\* steps when the steps failed and the post-steps succeeded; when both
\* failed the task logs that the task failed and the post-steps as well.
C22_PostStepErrorIsReturned ==
    call.op = "run" /\ DidLog(LabelMain, "Begin") /\ MainTask.poststeps # None
        => /\ IsError(PostStepOutcome) => ret.result = PostStepOutcome
           /\ IsError(StepOutcome) /\ ~IsError(PostStepOutcome)
                => ret.result = StepOutcome
           /\ IsError(StepOutcome) /\ IsError(PostStepOutcome)
                => DidLog(LabelMain,
                          "Task failed, and then post-steps failed as well")
           /\ ~IsError(StepOutcome) /\ ~IsError(PostStepOutcome)
                => ~IsError(ret.result)

\* C22 as stated: the error of the steps is returned whenever the steps
\* failed, also when the post-steps failed as well.
C22_AsStated ==
    call.op = "run" /\ DidLog(LabelMain, "Begin") /\ MainTask.poststeps # None
        => /\ ~IsError(StepOutcome) /\ IsError(PostStepOutcome)
                => ret.result = PostStepOutcome
           /\ IsError(StepOutcome) => ret.result = StepOutcome

\* The steps fail with the error of a canceled sub-task and the post-steps
\* with the error of a failed process, which is the one returned.
C22_Witness ==
    /\ call.op = "run" /\ DidLog(LabelMain, "Begin")
    /\ MainTask.steps = <<SubStep(TaskC), OkStep>>
    /\ MainTask.poststeps = Some(<<FailStep>>)
    /\ StepOutcome = Error("task canceled")
    /\ PostStepOutcome = Error("process failed")
    /\ ret.result = Error("process failed")

\* The list of the main task that a phase names, and the step of an entry
\* of the run's log.
ListOf(phase) ==
    CASE phase = "presteps"  -> MainTask.presteps.v
      [] phase = "steps"     -> MainTask.steps
      [] phase = "poststeps" -> MainTask.poststeps.v
StepOf(n) == ListOf(ret.log[n].phase)[ret.log[n].step_i + 1]
MainEntries ==
    { n \in DOMAIN ret.log : ret.log[n].event = "step"
                               /\ ret.log[n].label = LabelMain }
PhaseOrder(phase) ==
    CASE phase = "presteps" -> 1 [] phase = "steps" -> 2 [] phase = "poststeps" -> 3

\* What the step of entry n evaluates to, against the environment it was
\* evaluated against.
EntryOutcome(n) == StepConfig_evaluate(StepOf(n), ret.log[n].vars, MainData.context)

\* The entries of the sub-tasks that the run dispatched.
SubtaskEntries == { n \in DOMAIN ret.log : ret.log[n].label # LabelMain }

\* C23: the steps of a task are evaluated one after the other, pre-steps
\* before steps before post-steps and each list in the order of its steps;
\* everything a sub-task of step i does is done before step i+1 is
\* evaluated; no step of a list is evaluated after a step of the list that
\* failed or whose sub-task failed; and the value a completed step stored
\* under a key is bound to the key in the environment that every later
\* step of the task, of whichever list, is evaluated against.
C23_StepsAreSequential ==
    call.op = "run" =>
        /\ \A n, m \in MainEntries :
              n < m => \/ PhaseOrder(ret.log[n].phase) < PhaseOrder(ret.log[m].phase)
                       \/ /\ ret.log[n].phase = ret.log[m].phase
                          /\ ret.log[n].step_i < ret.log[m].step_i
        /\ \A m \in MainEntries :
              ret.log[m].step_i > 0
                => \E n \in MainEntries :
                      /\ n < m /\ ret.log[n].phase = ret.log[m].phase
                      /\ ret.log[n].step_i + 1 = ret.log[m].step_i
        /\ \A n, m \in MainEntries, k \in SubtaskEntries :
              n < m /\ "task" \in DOMAIN StepOf(n) /\ n < k => k < m
        /\ \A n, m \in MainEntries :
              /\ n < m /\ ret.log[n].phase = ret.log[m].phase
                   => /\ ~IsError(EntryOutcome(n))
                      /\ \A k \in SubtaskEntries :
                            n < k /\ k < m => ret.log[k].event # "Canceled"
              /\ n < m /\ get_store(StepOf(n)) # None
                   => get(ret.log[m].vars, get_store(StepOf(n)).v)
                        = OutputValue(EntryOutcome(n).s)

\* A pre-step stores 19 under a; the step and the post-step, whose command
\* is `e {{a}}`, are evaluated against environments that bind a to 19, and the
\* task finishes.
C23_Witness ==
    /\ call.op = "run"
    /\ MainTask.presteps = Some(<<StoreStep>>)
    /\ MainTask.steps = <<UseStep>>
    /\ MainTask.poststeps = Some(<<UseStep>>)
    /\ \A n \in StepEntries(LabelMain, "steps", 0)
                 \cup StepEntries(LabelMain, "poststeps", 0) :
          get(ret.log[n].vars, KeyA) = JNum(19)
    /\ Cardinality(MainEntries) = 3
    /\ DidLog(LabelMain, "Finished")

\* The environment of the main task after the step of entry n: the one the
\* next step is evaluated against, or the one the run ends with.
EnvAfter(n) ==
    IF \E m \in MainEntries : m > n
    THEN ret.log[CHOOSE m \in MainEntries :
                    m > n /\ \A k \in MainEntries : k > n => m <= k].vars
    ELSE ret.vars

\* The command steps of a step that declare `store`: the step itself or
\* the children of a parallel group.
StoringCommands(step) ==
    IF "parallel" \in DOMAIN step
    THEN { step.parallel[i] : i \in { j \in DOMAIN step.parallel :
                                        get_store(step.parallel[j]) # None } }
    ELSE IF get_store(step) # None THEN { step } ELSE {}

\* C24: after a step of the main task that did not fail, each command step
\* in it that declares `store: K` and completed, the child of a parallel
\* group included, has K bound in the task's local frame to its output,
\* parsed as JSON when it parses and as the string it is otherwise.
C24_StoreBindsOutput ==
    call.op = "run" =>
        \A n \in MainEntries : \A c \in StoringCommands(StepOf(n)) :
            With(BasicStep_evaluate(c, ret.log[n].vars, MainData.context),
                 LAMBDA result :
                    ~IsError(EntryOutcome(n)) /\ ~IsError(result)
                        /\ result.t = "Completed"
                    => /\ get_store(c).v \in DOMAIN EnvAfter(n).local_vars
                       /\ EnvAfter(n).local_vars[get_store(c).v]
                            = (IF IsError(from_str(result.s)) THEN JStr(result.s)
                               ELSE from_str(result.s)))

\* The part of C24 that holds: the same of the steps that are not parallel
\* groups.
C24_SingleStepStores ==
    call.op = "run" =>
        \A n \in MainEntries : \A c \in StoringCommands(StepOf(n)) :
            With(BasicStep_evaluate(c, ret.log[n].vars, MainData.context),
                 LAMBDA result :
                    ~IsError(result) /\ result.t = "Completed"
                        /\ "parallel" \notin DOMAIN StepOf(n)
                    => /\ get_store(c).v \in DOMAIN EnvAfter(n).local_vars
                       /\ EnvAfter(n).local_vars[get_store(c).v]
                            = (IF IsError(from_str(result.s)) THEN JStr(result.s)
                               ELSE from_str(result.s)))

-----------------------------------------------------------------------------
(* The fan-out session: a sub-task step with an `over` map is evaluated     *)
(* against an environment that binds a and b to numbers, arrays or objects. *)

MaxElems == 2

KeyX == <<"x">>
KeyY == <<"y">>

\* The array of the numbers 1 .. n.
ArrayOf(n) == JArr([i \in 1..n |-> JNum(i)])

OverValues == { JNum(7), JObj(<<>>) } \cup { ArrayOf(n) : n \in 0..MaxElems }

OverEnvs ==
    { insert(insert(VariableSet_new, KeyA, va), KeyB, vb) :
        va \in OverValues, vb \in OverValues }

\* The `over` maps, each in the orders its HashMap may iterate in.
OverMaps ==
    { None, Some(<<>>), Some(<<<<KeyX, TokenA>>>>),
      Some(<<<<KeyX, TokenA>>, <<KeyY, TokenB>>>>),
      Some(<<<<KeyY, TokenB>>, <<KeyX, TokenA>>>>) }

\* TaskStepConfig::evaluate of a step that maps over the map.
MapOver ==
    /\ call.op = "new"
    /\ \E over \in OverMaps :
        \E step \in { [SubStep(TaskS) EXCEPT !.over = over] } :
          /\ call' = [op |-> "over", pre |-> E, step |-> step]
          /\ ret' = TaskStepConfig_evaluate(step, E, RunContext_default)
    /\ UNCHANGED <<E, tokVars, exVars, ctxVars>>

InitOver == /\ E \in OverEnvs /\ call = [op |-> "new"] /\ ret = NoOutput
            /\ TokInit /\ ExIdle /\ CtxIdle
NextOver == MapOver
SpecOver == InitOver /\ [][NextOver]_vars

\* The pairs of the step's map, the value each source expands to in the
\* environment the step stacked, and the values the pair contributes.
OverPairs == IF call.step.over = None THEN <<>> ELSE call.step.over.v
OverSource(i) == evaluate_tokens_vs(OverPairs[i][2], stack(call.pre, "CopyLocals"))
OverElements(i) ==
    IF OverSource(i).t = "arr" THEN { OverSource(i).a[n] : n \in DOMAIN OverSource(i).a }
    ELSE { OverSource(i) }
MapTargets == { OverPairs[i][1] : i \in DOMAIN OverPairs }

RECURSIVE OverProduct(_)
OverProduct(i) ==
    IF i > Len(OverPairs) THEN 1
    ELSE Cardinality(OverElements(i)) * OverProduct(i + 1)

\* The combinations of the cartesian product: one value for each target.
OverCombinations ==
    { f \in [MapTargets -> UNION { OverElements(i) : i \in DOMAIN OverPairs }] :
        \A i \in DOMAIN OverPairs : f[OverPairs[i][1]] \in OverElements(i) }

\* The combination a descriptor binds, and the rest of its local frame.
BoundBy(task) == [k \in MapTargets |-> task.vars.local_vars[k]]
RestOf(task) ==
    [k \in DOMAIN task.vars.local_vars \ MapTargets |-> task.vars.local_vars[k]]

-----------------------------------------------------------------------------
(* The join session: a step of a task submits sub-tasks, or is a parallel   *)
(* group whose children are evaluated and may submit sub-tasks, and the     *)
(* task joins them with join_all.  Each child is a future that is polled    *)
(* on its own: it runs from one process it awaits to the next, the children *)
(* interleaving in any order, and the join resolves when all have returned. *)
(* The output is captured, as the tests of core/task.rs have it.            *)

MaxChildren == 3

TokenX == <<"{", "{", "x", "}", "}">>
TokenK == <<"{", "{", "k", "}", "}">>
TokenZ == <<"{", "{", "z", "}", "}">>

TaskP == <<"p">>
TaskQ == <<"q">>
TaskF == <<"f">>
TaskK == <<"k">>
TaskU == <<"u">>

\* The tasks of the session: p prints `p x`, stores it under k and prints
\* `q k`; q prints s, t and u in its three lists; f prints f, fails, and prints g in its post-step; c is
\* canceled and k is skipped.  No task is named u.
JoinConfig ==
    TaskP :> [PlainTask EXCEPT
                !.steps = <<[Echo(<<"p", " ">> \o TokenX) EXCEPT !.store = Some(KeyK)],
                            Echo(<<"q", " ">> \o TokenK)>>]
    @@ TaskQ :> [PlainTask EXCEPT !.presteps = Some(<<Echo(<<"s">>)>>),
                                  !.steps = <<Echo(<<"t">>)>>,
                                  !.poststeps = Some(<<Echo(<<"u">>)>>)]
    @@ TaskF :> [PlainTask EXCEPT !.steps = <<Echo(<<"f">>), FailStep>>,
                                  !.poststeps = Some(<<Echo(<<"g">>)>>)]
    @@ TaskC :> [PlainTask EXCEPT !.unless = Some(<<PassingGate>>)]
    @@ TaskK :> [PlainTask EXCEPT !.if = Some(<<FailingGate>>),
                                  !.presteps = Some(<<Echo(<<"d">>)>>)]

JoinWorld == World(JoinConfig, TRUE, <<>>, Now)

\* A sub-task step that binds x to 7.
SubStepWith(name) ==
    [SubStep(name) EXCEPT !.vars = Some(<<<<KeyX, RawJson(JNum(7))>>>>)]

\* The steps that are joined: sub-task steps, over the elements of a, of an
\* unknown task and over an unbound z, and parallel groups of sub-task
\* steps and of commands.
JoinSteps ==
    { [SubStep(TaskP) EXCEPT !.over = Some(<<<<KeyX, TokenA>>>>)],
      SubStep(TaskU),
      [SubStep(TaskP) EXCEPT !.over = Some(<<<<KeyX, TokenZ>>>>)],
      Parallel(<<SubStep(TaskF), SubStep(TaskC), SubStepWith(TaskP)>>),
      Parallel(<<SubStep(TaskK), SubStepWith(TaskP), SubStep(TaskQ)>>),
      Parallel(<<SubStep(TaskQ), SubStep(TaskU)>>),
      Parallel(<<Echo(<<"x">>), Echo(<<"y">>)>>),
      Parallel(<<Echo(<<"x">>), Echo(TokenZ), FailStep>>),
      Parallel(<<[Echo(<<"x">>) EXCEPT !.store = Some(KeyK)],
                 [SubStep(TaskP) EXCEPT !.over = Some(<<<<KeyX, TokenA>>>>)],
                 SubStep(TaskQ)>>) }

\* The environments of the task: a is an array of numbers, and the local
\* frame binds k.
JoinEnvs ==
    { insert(stack(insert(VariableSet_new, KeyA, ArrayOf(n)), "EmptyLocals"),
             KeyK, JStr(<<"0">>)) :
        n \in 1..MaxElems }

\* The future of a child of a parallel group and the future of a sub-task,
\* neither polled yet.  A sub-task counts the calls of prepare and of
\* evaluate made for it; while it runs it is in a list (phase) at a step
\* (step_i, counted from zero), with the outputs and the error of each list.
StepFut(step) ==
    [kind |-> "step", step |-> step, st |-> "ready", result |-> None]
TaskFut(subtask) ==
    [kind |-> "task", subtask |-> subtask, st |-> "ready", result |-> None,
     outcome |-> "", prepared |-> 0, evaluated |-> 0, data |-> None,
     phase |-> "", step_i |-> 0,
     outputs |-> [presteps |-> <<>>, steps |-> <<>>, poststeps |-> <<>>],
     errors |-> [steps |-> None, poststeps |-> None]]

\* The future has returned.
Ended(r, outcome, result) ==
    [r EXCEPT !.st = "done", !.outcome = outcome, !.result = result]

\* The list of the task that a phase names.
PhaseList(task, phase) ==
    CASE phase = "presteps"  -> IF task.presteps = None THEN <<>> ELSE task.presteps.v
      [] phase = "steps"     -> task.steps
      [] phase = "poststeps" -> IF task.poststeps = None THEN <<>> ELSE task.poststeps.v

\* What evaluate_steps returned for a list: its outputs or its error.
ListResult(r, phase) ==
    IF r.errors[phase] # None THEN r.errors[phase] ELSE Ok(r.outputs[phase])

\* TaskConfig::evaluate between two steps: the future goes on to the next
\* step it has to await a process for, through the skip check after the
\* pre-steps and the binding of SUCCESS after the steps, or it returns.
RECURSIVE Settle(_, _)
Settle(r, world) ==
    With(world.config[r.subtask.task], LAMBDA task :
        IF r.st = "done" THEN r
        ELSE IF (r.phase = "presteps" \/ r.errors[r.phase] = None)
                /\ r.step_i < Len(PhaseList(task, r.phase)) THEN r
        ELSE IF r.phase = "presteps"
        THEN With(test_skip(task, r.data, world.files, world.now), LAMBDA skipped :
                IF IsError(skipped) THEN Ended(r, "Failed", skipped)
                ELSE IF skipped # None /\ ~is_forced(r.data.context)
                THEN Ended(r, "Skipped", None)
                ELSE Settle([r EXCEPT !.phase = "steps", !.step_i = 0], world))
        ELSE IF r.phase = "steps"
        THEN Settle([r EXCEPT !.phase = "poststeps", !.step_i = 0,
                              !.data.vars = InsertSuccess(@, ListResult(r, "steps"))],
                    world)
        ELSE With(HandleErrors(ListResult(r, "steps"), ListResult(r, "poststeps")),
                  LAMBDA handled :
                    Ended(r, IF IsError(handled) THEN "Failed" ELSE "Completed",
                          Finalize(handled, r.outputs.presteps, world.capture_output))))

\* evaluate_subtask up to the first step: the task is looked up, prepared
\* and tested for cancelling.
Begin(r, data, world) ==
    IF r.subtask.task \notin DOMAIN world.config
    THEN Ended(r, "Failed", Error("unknown task"))
    ELSE
    With(subtask_data(data, world, r.subtask), LAMBDA prepared :
        IF IsError(prepared)
        THEN Ended([r EXCEPT !.prepared = @ + 1], "Failed", prepared)
        ELSE
        With([r EXCEPT !.prepared = @ + 1, !.evaluated = @ + 1, !.st = "running",
                       !.data = prepared, !.phase = "presteps"],
             LAMBDA started :
        With(test_cancel(world.config[r.subtask.task], prepared),
             LAMBDA canceled :
                IF IsError(canceled) THEN Ended(started, "Failed", canceled)
                ELSE IF canceled # None
                THEN Ended(started, "Canceled", Error("task canceled"))
                ELSE Settle(started, world))))

\* The error of a step: the pre-steps return it, the steps and the
\* post-steps keep it as the error of their list.
StepFailed(r, error) ==
    IF r.phase = "presteps" THEN Ended(r, "Failed", error)
    ELSE [r EXCEPT !.errors[r.phase] = error]

\* One turn of the loop of evaluate_steps: the step at step_i is evaluated,
\* its output is kept and stored, and the sub-tasks it submits are joined.
StepOnce(r, world) ==
    With(PhaseList(world.config[r.subtask.task], r.phase)[r.step_i + 1], LAMBDA step :
    With(StepConfig_evaluate(step, r.data.vars, r.data.context), LAMBDA step_output :
    With([r EXCEPT !.step_i = @ + 1], LAMBDA next :
        IF IsError(step_output) THEN StepFailed(r, step_output)
        ELSE IF step_output.t = "SubmitTasks"
        THEN With(JoinSubtasks(step_output.tasks, 1, r.data, world, <<>>, <<>>).result,
                  LAMBDA joined :
                    IF IsError(joined) THEN StepFailed(r, joined)
                    ELSE [next EXCEPT !.outputs[r.phase] = @ \o joined.v])
        ELSE IF step_output.t = "SkippedDueToIfStatement" THEN next
        ELSE [next EXCEPT
                !.outputs[r.phase] =
                    IF world.capture_output THEN Append(@, step_output.s) ELSE @,
                !.data.vars = StoreOutput(@, step, step_output.s)])))

\* The task of the session; its label is the one the tests give.
LabelTest == <<"t", "e", "s", "t">>
JoinData == TaskEvaluationData(LabelTest, E, RunContext_default)

Futures(kind) == { k \in DOMAIN fut : fut[k].kind = kind }
Results(kind) ==
    With(SelectSeq([k \in DOMAIN fut |-> k], LAMBDA k : fut[k].kind = kind),
         LAMBDA ks : [n \in DOMAIN ks |-> fut[ks[n]].result])

\* The futures of the sub-tasks of a list of descriptors, at most
\* MaxChildren of them.
TaskFutures(tasks) == [n \in 1..Len(tasks) |-> TaskFut(tasks[n])]

\* The loop of evaluate_steps reaches a step that is joined: a sub-task step
\* is evaluated and the futures of its sub-tasks are made; of a parallel
\* group the futures of the children are made.
Submit ==
    /\ call.op = "new"
    /\ \E step \in JoinSteps :
        IF "parallel" \in DOMAIN step
        THEN /\ call' = [op |-> "join", step |-> step, finished |-> <<>>]
             /\ fut' = [n \in DOMAIN step.parallel |-> StepFut(step.parallel[n])]
             /\ ret' = NoOutput
        ELSE \E step_output \in { StepConfig_evaluate(step, E, JoinData.context) } :
             IF ~IsError(step_output) /\ step_output.t = "SubmitTasks"
             THEN /\ Len(step_output.tasks) <= MaxChildren
                  /\ call' = [op |-> "join", step |-> step, finished |-> <<>>]
                  /\ fut' = TaskFutures(step_output.tasks)
                  /\ ret' = NoOutput
             ELSE /\ call' = [op |-> "joined", step |-> step, finished |-> <<>>]
                  /\ fut' = <<>>
                  /\ ret' = step_output
    /\ UNCHANGED <<E, processes, permits, spawned, tokVars, ctxVars>>

\* The future has returned in this step: it is the next to have finished.
Finishing(k, r) ==
    call' = [call EXCEPT !.finished = IF r.st = "done" THEN Append(@, k) ELSE @]

\* A variant of Poll that polls once more a sub-task that has returned.
Poll_Again(k) ==
    /\ call.op = "join"
    /\ \/ fut[k].st = "ready"
       \/ fut[k].kind = "task" /\ fut[k].st = "done" /\ fut[k].prepared = 1
    /\ \E r \in { IF fut[k].kind = "step"
                   THEN [fut[k] EXCEPT !.st = "done", !.result =
                            SingularStepConfig_evaluate(fut[k].step, E, JoinData.context)]
                   ELSE Begin([fut[k] EXCEPT !.step_i = 0], JoinData, JoinWorld) } :
          /\ fut' = [fut EXCEPT ![k] = r]
          /\ call' = [call EXCEPT !.finished =
                        IF r.st = "done" /\ fut[k].st # "done" THEN Append(@, k) ELSE @]
    /\ UNCHANGED <<E, ret, processes, permits, spawned, tokVars, ctxVars>>

\* join_all polls a future for the first time: the child of a parallel
\* group is evaluated, a sub-task is prepared and evaluated up to its first
\* step.
Poll(k) ==
    /\ call.op = "join" /\ fut[k].st = "ready"
    /\ \E r \in { IF fut[k].kind = "step"
                   THEN [fut[k] EXCEPT !.st = "done", !.result =
                            SingularStepConfig_evaluate(fut[k].step, E, JoinData.context)]
                   ELSE Begin(fut[k], JoinData, JoinWorld) } :
          /\ fut' = [fut EXCEPT ![k] = r]
          /\ Finishing(k, r)
    /\ UNCHANGED <<E, ret, processes, permits, spawned, tokVars, ctxVars>>

\* A variant of StepTask in which the sub-task inserts into the frame of
\* its parent as well.
StepTask_SharedFrame(k) ==
    /\ call.op = "join" /\ fut[k].st = "running"
    /\ \E r \in { Settle(StepOnce(fut[k], JoinWorld), JoinWorld) } :
          /\ fut' = [fut EXCEPT ![k] = r]
          /\ E' = [E EXCEPT !.local_vars = r.data.vars.local_vars @@ @]
          /\ Finishing(k, r)
    /\ UNCHANGED <<ret, processes, permits, spawned, tokVars, ctxVars>>

\* The process that a sub-task awaits ends and the sub-task goes on to its
\* next step, or returns.
StepTask(k) ==
    /\ call.op = "join" /\ fut[k].st = "running"
    /\ \E r \in { Settle(StepOnce(fut[k], JoinWorld), JoinWorld) } :
          /\ fut' = [fut EXCEPT ![k] = r]
          /\ Finishing(k, r)
    /\ UNCHANGED <<E, ret, processes, permits, spawned, tokVars, ctxVars>>

\* join_all over the children of a parallel group resolves: the group
\* returns, and the sub-tasks it submits are joined in turn.
JoinGroup ==
    /\ call.op = "join" /\ Futures("task") = {}
    /\ \A k \in DOMAIN fut : fut[k].st = "done"
    /\ \E step_output \in { ParallelCollect(Results("step"), <<>>) } :
        IF ~IsError(step_output) /\ step_output.t = "SubmitTasks"
        THEN /\ Len(step_output.tasks) <= MaxChildren
             /\ fut' = fut \o TaskFutures(step_output.tasks)
             /\ UNCHANGED <<call, ret>>
        ELSE /\ call' = [call EXCEPT !.op = "joined"]
             /\ ret' = IF IsError(step_output) THEN step_output
                       ELSE Ok(<<step_output.s>>)
             /\ UNCHANGED fut
    /\ UNCHANGED <<E, processes, permits, spawned, tokVars, ctxVars>>

\* A variant of JoinTasks that resolves as soon as a sub-task has failed
JoinTasks_OnFirstError ==
    /\ call.op = "join" /\ Futures("task") # {}
    /\ \E k \in Futures("task") : fut[k].st = "done" /\ IsError(fut[k].result)
    /\ call' = [call EXCEPT !.op = "joined"]
    /\ ret' = CollectSubtasks(Results("task"), <<>>)
    /\ UNCHANGED <<E, fut, processes, permits, spawned, tokVars, ctxVars>>

\* join_all over the sub-tasks resolves: their outputs are collected.
JoinTasks ==
    /\ call.op = "join" /\ Futures("task") # {}
    /\ \A k \in DOMAIN fut : fut[k].st = "done"
    /\ call' = [call EXCEPT !.op = "joined"]
    /\ ret' = CollectSubtasks(Results("task"), <<>>)
    /\ UNCHANGED <<E, fut, processes, permits, spawned, tokVars, ctxVars>>

InitJoin ==
    /\ E \in JoinEnvs /\ call = [op |-> "new"] /\ ret = NoOutput
    /\ processes = 1 /\ permits = 1 /\ fut = <<>> /\ spawned = 0
    /\ TokInit /\ CtxIdle

NextJoin ==
    \/ Submit
    \/ \E k \in DOMAIN fut : Poll(k)
    \/ \E k \in DOMAIN fut : StepTask(k)
    \/ JoinGroup
    \/ JoinTasks

SpecJoin == InitJoin /\ [][NextJoin]_vars

\* join_all polls a future that can go on, and a process that is awaited
\* ends: the join takes a step again and again until it has resolved.  A
\* step of the join is possible exactly while it has not resolved, so this
\* is weak fairness of NextJoin.
FairJoin == SpecJoin /\ ([]<>(call.op = "joined") \/ []<><<NextJoin>>_vars)

-----------------------------------------------------------------------------
(* Properties of the join *)

Joined == call.op = "joined"

\* The futures of a kind, in the order in which they were submitted.
InOrder(kind) == SelectSeq([k \in DOMAIN fut |-> k], LAMBDA k : fut[k].kind = kind)

\* The outputs of the sub-tasks from the n-th on, in submission order; a
\* skipped sub-task has none.
RECURSIVE OutputsFrom(_)
OutputsFrom(n) ==
    IF n > Len(InOrder("task")) THEN <<>>
    ELSE (IF fut[InOrder("task")[n]].result = None THEN <<>>
          ELSE fut[InOrder("task")[n]].result.v) \o OutputsFrom(n + 1)

\* The order in which the sub-tasks returned is not the order in which
\* they were submitted.
OutOfOrder ==
    \E n, m \in DOMAIN call.finished :
        /\ n < m /\ call.finished[n] > call.finished[m]
        /\ fut[call.finished[n]].kind = "task"
        /\ fut[call.finished[m]].kind = "task"

\* C26: when the join has resolved without an error, the outputs returned
\* for the step are the outputs of the sub-tasks, those submitted by the
\* children of a parallel group included, concatenated in the order in
\* which the sub-tasks were submitted, whatever the order in which they
\* returned; each sub-task's outputs are those of its pre-steps, steps and
\* post-steps in this order, the same as when it is evaluated alone; and a
\* parallel group that submits no sub-task contributes the empty string,
\* not the outputs of its children.
C26_OutputsInSubmissionOrder ==
    Joined /\ fut # <<>> /\ ~IsError(ret) =>
        /\ Futures("task") # {} => ret = Ok(OutputsFrom(1))
        /\ Futures("task") = {} => ret = Ok(<<<<>>>>)
        /\ \A k \in Futures("task") :
              /\ fut[k].result
                    = evaluate_subtask(JoinData, JoinWorld, fut[k].subtask, <<>>).result
              /\ fut[k].outcome = "Completed"
                    => fut[k].result = Some(fut[k].outputs.presteps
                                            \o fut[k].outputs.steps
                                            \o fut[k].outputs.poststeps)

\* C26 as stated: what each child of a parallel group completed with is
\* among the outputs returned.
C26_AsStated ==
    Joined /\ fut # <<>> /\ ~IsError(ret) =>
        /\ Futures("task") # {} => ret = Ok(OutputsFrom(1))
        /\ \A k \in Futures("step") :
              fut[k].result.t = "Completed"
                => \E n \in DOMAIN ret.v : ret.v[n] = fut[k].result.s

\* The sub-tasks p for x = 1 and x = 2: the second returned first, and the
\* outputs of the first come first.
C26_Witness ==
    /\ Joined /\ OutOfOrder
    /\ "over" \in DOMAIN call.step
    /\ call.finished = <<2, 1>>
    /\ ret = Ok(<<<<"p", " ", "1">>, <<"q", " ", "p", " ", "1">>,
                  <<"p", " ", "2">>, <<"q", " ", "p", " ", "2">>>>)

\* The join of the children of a parallel group has resolved.
GroupResolved ==
    /\ call.op \in { "join", "joined" }
    /\ Futures("step") # {}
    /\ Joined \/ Futures("task") # {}

\* The children of the group that failed, and the descriptors that the
\* children from the n-th on submitted, in the order of the children.
FailedChildren == { k \in Futures("step") : IsError(fut[k].result) }
RECURSIVE SubmittedFrom(_)
SubmittedFrom(n) ==
    IF n > Len(InOrder("step")) THEN <<>>
    ELSE (IF fut[InOrder("step")[n]].result.t = "SubmitTasks"
          THEN fut[InOrder("step")[n]].result.tasks ELSE <<>>)
         \o SubmittedFrom(n + 1)

\* The sub-tasks that are joined, in order.
SubtasksJoined == [n \in DOMAIN InOrder("task") |-> fut[InOrder("task")[n]].subtask]

\* C27: when the join of a parallel group has resolved, every child of the
\* group has been evaluated and has returned; if a child failed, the
\* step's result is the error of the first child that failed and no
\* sub-task is submitted; otherwise the sub-tasks that are submitted are
\* the descriptors of the children, flattened in the order of the
\* children, if there is one; otherwise the group has completed with the
\* empty string.
C27_ParallelGroupResult ==
    GroupResolved =>
        /\ \A k \in Futures("step") :
              /\ fut[k].st = "done"
              /\ fut[k].result
                    = SingularStepConfig_evaluate(call.step.parallel[k], E,
                                                  RunContext_default)
        /\ FailedChildren # {}
              => /\ Joined /\ Futures("task") = {}
                 /\ \E k \in FailedChildren :
                       /\ ret = fut[k].result
                       /\ \A j \in FailedChildren : k <= j
        /\ FailedChildren = {} /\ SubmittedFrom(1) # <<>>
              => SubtasksJoined = SubmittedFrom(1)
        /\ FailedChildren = {} /\ SubmittedFrom(1) = <<>>
              => Joined /\ Futures("task") = {} /\ ret = Ok(<<<<>>>>)

\* The group of echo x, the sub-task step p over the two elements of a and
\* the sub-task step q submits p, p and q.
C27_Witness ==
    /\ GroupResolved /\ FailedChildren = {}
    /\ Len(call.step.parallel) = 3
    /\ fut[1].result.t = "Completed"
    /\ Len(fut[2].result.tasks) = 2 /\ Len(fut[3].result.tasks) = 1
    /\ Len(SubtasksJoined) = 3
    /\ SubtasksJoined[1].task = TaskP /\ SubtasksJoined[2].task = TaskP
    /\ SubtasksJoined[3].task = TaskQ

\* The sub-tasks that failed, and what a sub-task returns when it is the
\* only one to be evaluated.
FailedTasks == { k \in Futures("task") : IsError(fut[k].result) }
Alone(k) == evaluate_subtask(JoinData, JoinWorld, fut[k].subtask, <<>>).result

\* C28: when the join has resolved, every child that was submitted has
\* returned, and what each sub-task returned is what it returns when it is
\* evaluated alone, whether a sibling failed before it or not; the error
\* of the step is the error of the first child, in the order of
\* submission, that failed.  No step of a child changes another child:
\* a child that failed leaves its siblings as they are.
C28_Unhindered ==
    Joined /\ fut # <<>>
         => /\ \A k \in DOMAIN fut : fut[k].st = "done"
            /\ \A k \in Futures("task") : fut[k].result = Alone(k)
            /\ FailedTasks # {}
                 => \E k \in FailedTasks :
                       /\ ret = fut[k].result
                       /\ \A j \in FailedTasks : k <= j
            /\ FailedChildren # {}
                 => \E k \in FailedChildren :
                       /\ ret = fut[k].result
                       /\ \A j \in FailedChildren : k <= j

\* A step of one child leaves every other child as it is.
C28_NoInterruption ==
    [][\A j, k \in DOMAIN fut :
          j # k /\ fut'[k] # fut[k] /\ j \in DOMAIN fut' => fut'[j] = fut[j]]_vars

\* Of the sub-tasks f, c and p, c was canceled first, then f failed, and p
\* completed after both; the error of the step is that of f.
C28_Witness ==
    /\ Joined /\ Len(fut) = 6
    /\ call.finished = <<1, 2, 3, 5, 4, 6>>
    /\ fut[4].subtask.task = TaskF /\ fut[4].outcome = "Failed"
    /\ fut[5].outcome = "Canceled"
    /\ fut[6].outcome = "Completed"
    /\ fut[6].result = Some(<<<<"p", " ", "7">>, <<"q", " ", "p", " ", "7">>>>)
    /\ ret = Error("process failed")

\* The sub-tasks that have been prepared, the environment of a sub-task and
\* the environment its descriptor was made with.
Prepared == { k \in Futures("task") : fut[k].data # None }
EnvOf(k) == fut[k].data.vars
Given(k) == fut[k].subtask.vars

\* What the sub-task p stores under k: `p` and its own x.
OwnK(k) == evaluate_tokens_to_string(<<"p", " ">> \o TokenX, Given(k))

\* C29: under every interleaving of the sub-tasks, the environment of the
\* parent is the one it had when the sub-tasks were submitted: it is one of
\* the environments the session starts from, and the descriptor of every
\* sub-task holds a copy of it or a frame stacked on it.  The environment
\* of a sub-task is a frame of its own on the frames of its descriptor,
\* and the frame binds only what the sub-task inserted: SUCCESS, and k
\* bound to the output made of its own x.  What the sub-task reads under k
\* is that or the binding of the parent, never the binding of a sibling.
C29_FramesNotShared ==
    /\ E \in JoinEnvs
    /\ \A k \in Futures("task") :
          \/ Given(k) = E
          \/ Given(k).stacked_vars = Append(E.stacked_vars, E.local_vars)
    /\ \A k \in Prepared :
          /\ EnvOf(k).stacked_vars
                = Append(Given(k).stacked_vars, Given(k).local_vars)
          /\ DOMAIN EnvOf(k).local_vars \subseteq { KeyK, KeySuccess }
          /\ KeyK \in DOMAIN EnvOf(k).local_vars
                => /\ fut[k].subtask.task = TaskP
                   /\ EnvOf(k).local_vars[KeyK] = OwnK(k)
          /\ get(EnvOf(k), KeyK) \in { E.local_vars[KeyK], OwnK(k) }

\* The two sub-tasks p over the elements 1 and 2 of a have stored `p 1` and
\* `p 2` under k and bound SUCCESS, each in its own frame, and the join
\* has resolved: the parent binds k to 0 as before, and no SUCCESS.
C29_Witness ==
    /\ Joined /\ Len(fut) = 2 /\ Prepared = { 1, 2 }
    /\ EnvOf(1).local_vars[KeyK] = JStr(<<"p", " ", "1">>)
    /\ EnvOf(2).local_vars[KeyK] = JStr(<<"p", " ", "2">>)
    /\ KeySuccess \in DOMAIN EnvOf(1).local_vars
    /\ KeySuccess \in DOMAIN EnvOf(2).local_vars
    /\ call.finished = <<2, 1>>
    /\ DOMAIN E.local_vars = { KeyK }
    /\ get(E, KeyK) = JStr(<<"0">>)

\* The states a task instance ends in.
TerminalStates == { "Completed", "Failed", "Skipped", "Canceled" }

\* The sub-task has been polled, and the task it names exists.
Dispatched(k) == fut[k].st # "ready" /\ fut[k].subtask.task \in DOMAIN JoinConfig

\* The instance has ended in a state that fits what was done for it.
EndedOnce(k) ==
    /\ fut[k].st = "done" <=> fut[k].outcome \in TerminalStates
    /\ fut[k].st # "done" => fut[k].outcome = ""
    /\ fut[k].outcome \in { "Completed", "Skipped", "Canceled" }
          => fut[k].evaluated = 1

\* A future that has returned stays as it is.
TerminalIsFinal ==
    \A k \in DOMAIN fut : fut[k].st = "done" => fut'[k] = fut[k]

\* C30: every descriptor that is dispatched and names a task of the
\* configuration leads to exactly one call of prepare and to at most one
\* call of evaluate for that task, never to an evaluation without a
\* preparation; an instance that is evaluated is evaluated once; every
\* instance ends, in one of Completed, Failed, Skipped and Canceled, and
\* once it has ended it never changes again.  (A descriptor that names no
\* task of the configuration fails in get_task, before any preparation.)
C30_OneLifecycle ==
    /\ [](\A k \in Futures("task") :
            /\ fut[k].prepared \in { 0, 1 } /\ fut[k].evaluated \in { 0, 1 }
            /\ fut[k].evaluated <= fut[k].prepared
            /\ fut[k].st = "ready" => fut[k].prepared = 0
            /\ Dispatched(k) => fut[k].prepared = 1
            /\ fut[k].st = "running" => fut[k].evaluated = 1
            /\ EndedOnce(k))
    /\ [](Joined => \A k \in DOMAIN fut : fut[k].st = "done")
    /\ [][TerminalIsFinal]_vars
    /\ <>Joined

\* The sub-tasks k, p and q of a parallel group have each been prepared and
\* evaluated once; k was skipped, p and q completed, q first.
C30_Witness ==
    /\ Joined /\ Len(fut) = 6
    /\ \A k \in 4..6 : fut[k].prepared = 1 /\ fut[k].evaluated = 1
    /\ fut[4].subtask.task = TaskK /\ fut[4].outcome = "Skipped"
    /\ fut[5].subtask.task = TaskP /\ fut[5].outcome = "Completed"
    /\ fut[6].subtask.task = TaskQ /\ fut[6].outcome = "Completed"
    /\ call.finished = <<1, 2, 3, 4, 6, 5>>

-----------------------------------------------------------------------------
(* The step session: a task evaluates a list of two command steps in one   *)
(* of the environments of the gate session, under a context that is silent *)
(* or not.  The first step has an `if` list, and may store its output and   *)
(* be silent itself; its process exits with 0 or with 1.                    *)

\* The step that follows the gated step: echo n.
NextStep == Echo(<<"n">>)

\* The gated steps: the command c prints x.
GatedSteps ==
    { [Command(<<"c">>, x, <<"x">>) EXCEPT !.if = g, !.store = st, !.silent = q] :
        x \in { 0, 1 }, g \in GateLists, st \in { None, Some(KeyK) },
        q \in BOOLEAN }

\* The contexts of the task: the default one, silent or not.
StepContexts == { [RunContext_default EXCEPT !.silent = q] : q \in BOOLEAN }

\* What each step that the loop evaluated did: the entry of the log tells
\* the environment the step was evaluated against.
StepEffects(steps, data, log) ==
    [n \in DOMAIN log |->
        BasicStep_effects(steps[log[n].step_i + 1], log[n].vars, data.context)]

\* evaluate_steps on the two steps, the output captured.
EvaluateSteps ==
    /\ call.op = "new"
    /\ \E first \in GatedSteps :
       \E data \in { TaskEvaluationData(LabelTest, E, run_context) } :
       \E outcome \in { evaluate_steps(<<first, NextStep>>, data,
                                       World(Config, TRUE, <<>>, Now), <<>>, "steps") } :
          /\ call' = [op |-> "steps", steps |-> <<first, NextStep>>, data |-> data]
          /\ ret' = [result |-> outcome.result, vars |-> outcome.vars,
                     log |-> outcome.log,
                     effects |-> StepEffects(<<first, NextStep>>, data, outcome.log)]
    /\ UNCHANGED <<E, run_context, lineage, tokVars, exVars>>

InitStep == /\ E \in GateEnvs /\ call = [op |-> "new"] /\ ret = NoOutput
            /\ run_context \in StepContexts /\ lineage = <<>>
            /\ TokInit /\ ExIdle
NextStepSession == EvaluateSteps
SpecStep == InitStep /\ [][NextStepSession]_vars

-----------------------------------------------------------------------------
(* Properties of the step session *)

\* The gated step of the last call and its gates.
GatedStep == call.steps[1]
IfGates   == IF GatedStep.if = None THEN <<>> ELSE GatedStep.if.v

\* Gate i (counted from one) of the step fails, and every gate before it
\* passes.
FirstFailing(i) ==
    /\ i \in DOMAIN IfGates
    /\ \A j \in 1..(i - 1) : RunGate_evaluate(IfGates[j], E) = None
    /\ ~IsError(RunGate_evaluate(IfGates[i], E))
    /\ RunGate_evaluate(IfGates[i], E) # None

\* C31: when the first gate of a step's `if` list that does not pass fails,
\* the step launches no process for its command (only the test gates up to
\* that gate have launched one), prints nothing of a process, is Skipped
\* with the index of that gate, counted from zero; the loop goes on to the
\* next step with the environment as it was, nothing stored, and returns
\* the output of the next step alone, which is not an error.
C31_SkippedStepDoesNothing ==
    call.op = "steps" =>
        \A i \in DOMAIN IfGates :
            FirstFailing(i) =>
                /\ BasicStep_evaluate(GatedStep, E, run_context).t
                      = "SkippedDueToIfStatement"
                /\ BasicStep_evaluate(GatedStep, E, run_context).id = i - 1
                /\ ~ret.effects[1].command
                /\ \A n \in DOMAIN ret.effects[1].tests :
                      ret.effects[1].tests[n] < i
                /\ \A n \in DOMAIN ret.effects[1].printed :
                      ret.effects[1].printed[n].kind = "STEP skipped"
                /\ Len(ret.log) = 2
                /\ ret.log[2] = StepEvaluated(LabelTest, "steps", 1, call.data.vars)
                /\ ret.effects[2].command
                /\ ret.vars = call.data.vars
                /\ ret.result = Ok(<<<<"n">>>>)

\* The second gate of a step that stores its output fails after a test gate
\* that passed: the step is skipped and the next step has run.
C31_Witness ==
    /\ call.op = "steps"
    /\ Len(IfGates) = 2 /\ FirstFailing(2) /\ IfGates[1].t = "Test"
    /\ GatedStep.store = Some(KeyK) /\ GatedStep.exit = 0
    /\ ret.effects[1].tests = <<0>> /\ ~ret.effects[1].command
    /\ ret.effects[2].printed = <<Line("STEP command", default_command_entry \o <<" ", "n">>),
                                  Line("stdout", <<"n">>)>>
    /\ ret.result = Ok(<<<<"n">>>>)

-----------------------------------------------------------------------------
(* The command-line session (cli/run.rs): main parses the --var arguments  *)
(* into an environment, evaluate_main_task stacks the top-level vars of    *)
(* the configuration on it, prepares the entry task and evaluates it.  The *)
(* entry task prints `h {{w}}` and runs the task m, which runs the task l;  *)
(* l defines w itself and prints `h {{w}}`.                                 *)

MaxArgs == 2

KeyW   == <<"w">>
KeyG   == <<"g">>
TokenW == <<"{", "{", "w", "}", "}">>
TaskM  == <<"m">>
TaskL  == <<"l">>

\* A raw variable that is the text c.
RawText(c) == RawJson(JStr(c))

\* The --var arguments: w=e, w=5, g=e, and w, which has no `=`.
VarArgs == { <<"w", "=", "e">>, <<"w", "=", "5">>, <<"g", "=", "e">>, <<"w">> }
RECURSIVE ArgsOfLen(_)
ArgsOfLen(n) ==
    IF n = 0 THEN { <<>> }
    ELSE { Append(l, a) : l \in ArgsOfLen(n - 1), a \in VarArgs }
ArgLists == UNION { ArgsOfLen(n) : n \in 0..MaxArgs }

\* DigConfig.vars: absent; w; w and then g, which is the value of w; g and
\* then w.
TopVars ==
    { None,
      Some(<<<<KeyW, RawText(<<"o">>)>>>>),
      Some(<<<<KeyW, RawText(<<"o">>)>>, <<KeyG, RawText(TokenW)>>>>),
      Some(<<<<KeyG, RawText(TokenW)>>, <<KeyW, RawText(<<"o">>)>>>>) }

\* The vars of a task: absent, or w defined as the text c.
OwnVars(c) == { None, Some(<<<<KeyW, RawText(c)>>>>) }

PrintW == Echo(<<"h", " ">> \o TokenW)

\* DigConfig.tasks, given the vars of m.
CliConfig(mid_vars) ==
    TaskM :> [PlainTask EXCEPT !.vars = mid_vars, !.steps = <<SubStep(TaskL)>>]
    @@ TaskL :> [PlainTask EXCEPT !.vars = Some(<<<<KeyW, RawText(<<"l">>)>>>>),
                                  !.steps = <<PrintW>>]

\* The entry task, given its vars.
EntryTask(main_vars) ==
    [PlainTask EXCEPT !.vars = main_vars, !.steps = <<PrintW, SubStep(TaskM)>>]

\* main, "handle overrides", for the arguments that are left: each is split
\* at its first `=`, and its value is JSON when it parses, else the text.
RECURSIVE HandleOverrides(_, _)
HandleOverrides(args, vs) ==
    IF args = <<>> THEN vs
    ELSE With(SplitN2(Head(args), "="), LAMBDA pair :
            IF Len(pair) < 2 THEN Error("not KEY=VALUE")
            ELSE HandleOverrides(Tail(args),
                                 insert(vs, pair[1], OutputValue(pair[2]))))

\* evaluate_main_task, "handle global variables", with the top-level vars
\* stacked on an empty local frame
GlobalVariables_EmptyLocals(config_vars, vs) ==
    IF config_vars = None THEN vs
    ELSE stack_raw_variables(VariableSet_new, config_vars.v, "CopyLocals").result

\* evaluate_main_task, "handle global variables".
GlobalVariables(config_vars, vs) ==
    IF config_vars = None THEN vs
    ELSE stack_raw_variables(vs, config_vars.v, "CopyLocals").result

\* evaluate_main_task after the global variables: the entry task is prepared
\* and evaluated, the output not captured.
EvaluateEntry(main_task, config, vs) ==
    Try(TaskConfig_prepare(main_task, LabelMain, vs, "EmptyLocals",
                           RunContext_default), LAMBDA task_data :
        TaskConfig_evaluate(main_task, task_data,
                            World(config, FALSE, <<>>, Now), <<>>))

\* main and evaluate_main_task.
RunMain ==
    /\ call.op = "new"
    /\ \E args \in ArgLists, top \in TopVars, main_vars \in OwnVars(<<"d">>),
          mid_vars \in OwnVars(<<"m">>) :
       \E cli \in { HandleOverrides(args, VariableSet_new) } :
       \E vs \in { IF IsError(cli) THEN cli ELSE GlobalVariables(top, cli) } :
          /\ call' = [op |-> "main", args |-> args, top |-> top,
                      main_vars |-> main_vars, mid_vars |-> mid_vars,
                      cli |-> cli, vars |-> vs]
          /\ ret' = IF IsError(vs) THEN Run(vs, VariableSet_new, <<>>)
                    ELSE With(EvaluateEntry(EntryTask(main_vars),
                                            CliConfig(mid_vars), vs),
                              LAMBDA outcome :
                                IF IsError(outcome)
                                THEN Run(outcome, vs, <<>>) ELSE outcome)
    /\ UNCHANGED <<E, tokVars, exVars, ctxVars>>

InitCli == E = VariableSet_new /\ call = [op |-> "new"] /\ ret = NoOutput
           /\ TokInit /\ ExIdle /\ CtxIdle
NextCli == RunMain
SpecCli == InitCli /\ [][NextCli]_vars

-----------------------------------------------------------------------------
(* Properties of the command-line session *)

\* The arguments are all KEY=VALUE.
WellFormed == \A n \in DOMAIN call.args : Len(call.args[n]) = 3

\* The key and the value of the n-th argument, and whether it is the last
\* argument with its key.
ArgKey(n) == <<call.args[n][1]>>
ArgValue(n) ==
    IF call.args[n][3] = "5" THEN JNum(5) ELSE JStr(<<call.args[n][3]>>)
LastOfKey(n) == \A m \in DOMAIN call.args : m > n => ArgKey(m) # ArgKey(n)

\* The text of a value of the session in a command.
ValueText(v) == IF v.t = "num" THEN <<"5">> ELSE v.s

\* The command line binds the key.
CliBinds(key) == WellFormed /\ \E n \in DOMAIN call.args : ArgKey(n) = key

\* The top-level vars define g as the value of w.
TopDefinesG ==
    call.top # None /\ \E n \in DOMAIN call.top.v : call.top.v[n][1] = KeyG

\* The entries of the log for the first step of a task, and what the step
\* prints when evaluated against the environment of the entry.
FirstStepOf(label) ==
    { n \in DOMAIN ret.log : ret.log[n] = StepEvaluated(label, "steps", 0, ret.log[n].vars) }
PrintedBy(n) ==
    BasicStep_effects(PrintW, ret.log[n].vars, RunContext_default).printed

\* C32: when the arguments are well formed, the top-level vars stack without
\* error, and for every key given on the command line the environment after
\* the top-level vars binds the key to the value of the last argument with
\* that key, whatever the top-level vars define for it; a top-level entry g
\* defined as {{w}} has the command-line value of w, before or after the
\* top-level entry of w; and the first step of the entry task, `h {{w}}`,
\* is evaluated against an environment that binds w to the command-line
\* value, and prints it, whether the entry task defines w itself or not.
C32_CommandLineWins ==
    call.op = "main" /\ WellFormed =>
        \A n \in DOMAIN call.args :
            LastOfKey(n) =>
                /\ ~IsError(call.vars)
                /\ get(call.vars, ArgKey(n)) = ArgValue(n)
                /\ ArgKey(n) = KeyW /\ TopDefinesG /\ ~CliBinds(KeyG)
                      => get(call.vars, KeyG) = ArgValue(n)
                /\ ArgKey(n) = KeyW
                      => /\ Cardinality(FirstStepOf(LabelMain)) = 1
                         /\ \A e \in FirstStepOf(LabelMain) :
                              /\ get(ret.log[e].vars, KeyW) = ArgValue(n)
                              /\ PrintedBy(e)[2]
                                   = Line("stdout", <<"h", " ">> \o ValueText(ArgValue(n)))

\* With --var w=e, top-level vars that define w as o and g as {{w}}, and an
\* entry task that defines w as d, the entry task prints `h e` and g is e.
C32_Witness ==
    /\ call.op = "main"
    /\ call.args = <<<<"w", "=", "e">>>>
    /\ call.top = Some(<<<<KeyW, RawText(<<"o">>)>>, <<KeyG, RawText(TokenW)>>>>)
    /\ call.main_vars # None
    /\ get(call.vars, KeyW) = JStr(<<"e">>) /\ get(call.vars, KeyG) = JStr(<<"e">>)
    /\ \E e \in FirstStepOf(LabelMain) :
          PrintedBy(e)[2] = Line("stdout", <<"h", " ", "e">>)

-----------------------------------------------------------------------------
(* Properties of the step session: the terminal *)

\* The steps that the loop evaluated and that ran under a silent context.
SilentSteps == { n \in DOMAIN ret.effects : ret.effects[n].context.silent }

\* The lines of a kind that step n printed.
LinesOf(n, kind) ==
    { m \in DOMAIN ret.effects[n].printed : ret.effects[n].printed[m].kind = kind }

\* C33: a step that runs under a silent context, the flag set by the step
\* or by the context of its task, prints nothing of what its process wrote
\* to stdout; a step under a context that is not silent whose process ran
\* and exited with 0 prints what the process wrote.
C33_SilentIsQuiet ==
    call.op = "steps" =>
        \A n \in DOMAIN ret.effects :
            /\ n \in SilentSteps => LinesOf(n, "stdout") = {}
            /\ n \notin SilentSteps /\ ret.effects[n].command
               /\ call.steps[ret.log[n].step_i + 1].exit = 0
                  => LinesOf(n, "stdout") # {}

\* The context a step runs under is silent exactly when the step or the
\* context of the task is, and a step whose process ran and exited with 0
\* prints what the process wrote, silent or not.
C33_SilentIsSticky ==
    call.op = "steps" =>
        \A n \in DOMAIN ret.effects :
            /\ ret.effects[n].context.silent
                  = (run_context.silent \/ call.steps[ret.log[n].step_i + 1].silent)
            /\ ret.effects[n].command /\ call.steps[ret.log[n].step_i + 1].exit = 0
                  => LinesOf(n, "stdout") # {}

-----------------------------------------------------------------------------
(* Properties of the task engine: outputs that do not exist *)

\* The task declares inputs, which exist, and outputs, one of which at least
\* does not exist; its run-if gates pass.
OutputMissing ==
    /\ FreshnessChecked
    /\ MainTask.outputs # None /\ ~Exist(MainTask.outputs.v)

\* C34: a task that declares inputs, has a declared output that does not
\* exist, passes its run-if gates and is not forced is not skipped when
\* its evaluation comes to the test for skipping: its first step is
\* evaluated.
C34_MissingOutputRuns ==
    call.op = "run" /\ OutputMissing /\ ~Forced /\ SkipTestReached
        => /\ ~DidLog(LabelMain, "Skipped")
           /\ 0 \in StepsEvaluated(LabelMain, "steps")

\* What the code does for such a task: it is skipped exactly when the
\* clock is later than the latest input, the earliest output being the
\* clock or an output that exists and is older.
C34_MissingOutputIsNow ==
    call.op = "run" /\ OutputMissing /\ ~Forced /\ SkipTestReached
        => /\ EarliestOutput <= Now
           /\ DidLog(LabelMain, "Skipped") <=> EarliestOutput > LatestInput

-----------------------------------------------------------------------------
(* The overlay session: a task evaluates one sub-task step that declares    *)
(* env, dir and silent, under a context of its own; what the step's gates   *)
(* and the process of the sub-task run under is recorded.                   *)

KeyE == <<"e">>
KeyF == <<"f">>
TaskD == <<"d">>

\* The env a step declares: e is 1.
StepEnv == <<<<KeyE, <<"1">>>>>>

\* The tasks of the session: s declares nothing, d declares the env f = 3.
OverlayConfig ==
    TaskS :> PlainTask
    @@ TaskD :> [PlainTask EXCEPT !.env = Some(<<<<KeyF, <<"3">>>>>>)]

OverlayWorld == World(OverlayConfig, TRUE, <<>>, Now)

\* The sub-task steps of the session.
OverlaySteps ==
    { [SubStep(name) EXCEPT !.env = e, !.dir = d, !.silent = q, !.if = g] :
        name \in { TaskS, TaskD },
        e \in { None, Some(StepEnv) },
        d \in { None, Some(<<"d">>) },
        q \in BOOLEAN,
        g \in { None, Some(<<PassingGate>>), Some(<<FailingGate>>) } }

\* The contexts of the calling task: its env binds nothing or f to 2, and
\* it is silent or not.
OverlayContexts ==
    { [RunContext_default EXCEPT !.env = e, !.silent = q] :
        e \in { None, Some(<<<<KeyF, <<"2">>>>>>) }, q \in BOOLEAN }

\* What TaskStepConfig::evaluate does besides returning: the context its
\* gates are tested under and the test processes it launches.
TaskStep_effects(step, vs, context) ==
    With(IF step.vars = None THEN stack(vs, "CopyLocals")
         ELSE stack_raw_variables(vs, step.vars.v, "EmptyLocals").result,
         LAMBDA stacked :
        IF IsError(stacked) THEN Effects(context, <<>>, FALSE, <<>>)
        ELSE With(update(context, step.env, step.dir, step.silent, stacked),
                  LAMBDA updated :
                IF IsError(updated) THEN Effects(context, <<>>, FALSE, <<>>)
                ELSE Effects(updated, GateWalk(step.if, stacked).launched,
                             FALSE, <<>>)))

\* evaluate_subtask on a descriptor: the data the sub-task is prepared
\* with and what its first step does under them.
SubtaskEffects(data, world, subtask) ==
    With(subtask_data(data, world, subtask), LAMBDA prepared :
        [data |-> prepared,
         effects |-> BasicStep_effects(world.config[subtask.task].steps[1],
                                       prepared.vars, prepared.context)])

\* evaluate_steps on the sub-task step, the output captured.
EvaluateSubStep ==
    /\ call.op = "new"
    /\ \E step \in OverlaySteps :
       \E data \in { TaskEvaluationData(LabelTest, E, run_context) } :
       \E outcome \in { evaluate_steps(<<step>>, data, OverlayWorld, <<>>, "steps") } :
       \E submitted \in { TaskStepConfig_evaluate(step, data.vars, data.context) } :
          /\ call' = [op |-> "substep", step |-> step, data |-> data]
          /\ ret' = [result |-> outcome.result, vars |-> outcome.vars,
                     log |-> outcome.log,
                     gates |-> TaskStep_effects(step, data.vars, data.context),
                     submitted |-> IF submitted.t = "SubmitTasks"
                                   THEN submitted.tasks ELSE <<>>,
                     spawned |-> IF submitted.t = "SubmitTasks"
                                 THEN [n \in DOMAIN submitted.tasks |->
                                        SubtaskEffects(data, OverlayWorld,
                                                       submitted.tasks[n])]
                                 ELSE <<>>]
    /\ UNCHANGED <<E, run_context, lineage, tokVars, exVars>>

InitOverlay == /\ E = VariableSet_new /\ call = [op |-> "new"] /\ ret = NoOutput
               /\ run_context \in OverlayContexts /\ lineage = <<>>
               /\ TokInit /\ ExIdle
NextOverlay == EvaluateSubStep
SpecOverlay == InitOverlay /\ [][NextOverlay]_vars

-----------------------------------------------------------------------------
(* Properties of the overlays of a sub-task step *)

\* The env of a context binds the key to the value.
EnvBinds(context, key, value) ==
    context.env # None /\ \E i \in DOMAIN context.env.v :
                              context.env.v[i] = <<key, value>>
EnvHas(context, key) ==
    context.env # None /\ \E i \in DOMAIN context.env.v : context.env.v[i][1] = key

\* The context carries the overlays of the step of the call.
Overlaid(context) ==
    /\ call.step.env # None => EnvBinds(context, KeyE, <<"1">>)
    /\ call.step.dir # None => context.dir = call.step.dir
    /\ context.silent = (call.step.silent \/ call.data.context.silent)

\* The context is the calling task's with what the sub-task itself
\* declares: no env of the step, no dir, and silent as the caller is.
FromCaller(context, name) ==
    /\ ~EnvHas(context, KeyE)
    /\ context.dir = None
    /\ context.silent = call.data.context.silent
    /\ IF name = TaskD THEN EnvBinds(context, KeyF, <<"3">>)
       ELSE context.env = call.data.context.env

\* C35: the overlays of a sub-task step are on the context its `if` gates
\* are tested under and on the context of each descriptor; the sub-task is
\* prepared from the context of the calling task, and the process of its
\* step runs under a context without the env and the dir of the step.
C35_OverlayNotInherited ==
    call.op = "substep"
        => /\ Overlaid(ret.gates.context)
           /\ call.step.if # None => ret.gates.tests = <<0>>
           /\ \A n \in DOMAIN ret.submitted : Overlaid(ret.submitted[n].context)
           /\ call.step.if # Some(<<FailingGate>>)
                => /\ Len(ret.submitted) = 1 /\ Len(ret.spawned) = 1
                   /\ ~IsError(ret.result)
           /\ \A n \in DOMAIN ret.spawned :
                /\ FromCaller(ret.spawned[n].data.context, call.step.task)
                /\ ret.spawned[n].effects.command
                /\ FromCaller(ret.spawned[n].effects.context, call.step.task)

C35_Witness ==
    /\ call.op = "substep"
    /\ call.step.env # None /\ call.step.dir # None /\ call.step.silent
    /\ call.step.if = Some(<<PassingGate>>)
    /\ ~call.data.context.silent
    /\ ret.gates.tests = <<0>> /\ ret.gates.context.dir = Some(<<"d">>)
    /\ Len(ret.spawned) = 1
    /\ ret.spawned[1].effects.command
    /\ ret.spawned[1].effects.context.dir = None
    /\ ~ret.spawned[1].effects.context.silent

-----------------------------------------------------------------------------
(* Properties of the executor: permits are given back *)

\* The permits are held by the running processes and by nothing else; with
\* no process running all of them are available.
PermitsAccounted ==
    /\ Holding = Running
    /\ permits + Cardinality(Running) = processes
    /\ Running = {} => permits = processes

\* A step in which the process of a future ends, however it ends, gives one
\* permit back and leaves the future without a permit.
PermitGivenBack ==
    \A f \in DOMAIN fut :
        fut[f].st = "running" /\ fut'[f].st # "running"
            => permits' = permits + 1 /\ ~fut'[f].lock

\* C36: a permit that is acquired is released when the process ends, with
\* zero, with non-zero or without having been run; in every state without
\* a running process all the permits are available.
C36_PermitsReleased == [](PermitsAccounted) /\ [][PermitGivenBack]_vars

\* With one permit: the child of a parallel group has failed on its
\* process, and another future runs a process with the permit.
C36_Witness ==
    /\ processes = 1
    /\ \E f, g \in DOMAIN fut :
          /\ fut[f].kind = "step" /\ fut[f].err /\ fut[f].st = "done"
          /\ ~fut[f].lock
          /\ fut[g].st = "running" /\ fut[g].lock

-----------------------------------------------------------------------------
(* Properties of the task engine: pre-steps that fail *)

\* The places of the log where the label logged the event, and where a
\* pre-step of the main task was evaluated.
LoggedAt(label, event) ==
    { n \in DOMAIN ret.log : ret.log[n] = Logged(label, event) }
PreStepsAt ==
    { n \in DOMAIN ret.log : /\ ret.log[n].event = "step"
                             /\ ret.log[n].label = LabelMain
                             /\ ret.log[n].phase = "presteps" }

\* The main task was prepared and was not canceled.
NotCanceled == ~IsError(MainData) /\ ~DidLog(LabelMain, "Canceled")

\* C37: when a pre-step of a task fails the evaluation returns its error
\* at once: no later pre-step is evaluated, the task is neither skipped nor
\* forced nor begun, no step and no post-step is evaluated and SUCCESS is
\* not bound; and a task that is skipped has evaluated all its pre-steps
\* before.
C37_PreStepFailureReturns ==
    call.op = "run" /\ NotCanceled =>
        /\ FailingPre # {} =>
              /\ ret.result = Error("process failed")
              /\ StepsEvaluated(LabelMain, "presteps") = 0..FirstFailingPre
              /\ \A event \in { "Skipped", "Forced", "Begin",
                                "Evaluating post-steps", "Task failed" } :
                    ~DidLog(LabelMain, event)
              /\ NoStepEvaluated(LabelMain, { "steps", "poststeps" })
              /\ IsError(get(ret.vars, KeySuccess))
        /\ DidLog(LabelMain, "Skipped") =>
              /\ StepsEvaluated(LabelMain, "presteps") = { i - 1 : i \in DOMAIN PreSteps }
              /\ \A n \in PreStepsAt, m \in LoggedAt(LabelMain, "Skipped") : n < m

\* A task whose `if` gate fails, so that it would be skipped, has a
\* pre-step that stores and a second one that fails: the run is the error
\* of the pre-step and the value stored is bound.
C37_Witness ==
    /\ call.op = "run" /\ NotCanceled
    /\ PreSteps = <<StoreStep, FailStep, OkStep>>
    /\ MainTask.if = Some(<<FailingGate>>)
    /\ MainTask.poststeps # None
    /\ MainData.context.forcing = "NotForced"
    /\ ret.result = Error("process failed")
    /\ get(ret.vars, KeyA) = JNum(19)

\* A task that is skipped for its `if` gate has evaluated its pre-step.
C37_SkippedAfterPreSteps ==
    /\ call.op = "run" /\ NotCanceled
    /\ PreSteps = <<OkStep>>
    /\ DidLog(LabelMain, "Skipped")
    /\ StepsEvaluated(LabelMain, "presteps") = { 0 }

-----------------------------------------------------------------------------
(* Properties of the run context: what a run can derive *)

\* The forcing of the context the derivations started from, and of the
\* contexts derived so far, the oldest first.
RootForcing ==
    IF lineage = <<>> THEN run_context.forcing ELSE lineage[1][1].forcing
DerivedForcings ==
    [n \in DOMAIN lineage |->
        IF n < Len(lineage) THEN lineage[n + 1][1].forcing
        ELSE run_context.forcing]

\* The forcing contexts evaluate_main_task makes from --force-all and
\* --force-first.
CommandLineForcings == { "NotForced", "ForcedAsMainTask", "EverythingForced" }

\* C38: from a context of the command line, whatever the tasks declare, no
\* derived context is ParentIsForced or ForcedAsMainTask: each is
\* NotForced, ExplicitlyForced or EverythingForced; and from
\* EverythingForced every derived context is EverythingForced, which is
\* forced, so that no task is skipped.
C38_DerivedContexts ==
    RootForcing \in CommandLineForcings =>
        /\ \A n \in DOMAIN DerivedForcings :
              DerivedForcings[n] \in { "NotForced", "ExplicitlyForced",
                                       "EverythingForced" }
        /\ RootForcing = "EverythingForced" =>
              /\ \A n \in DOMAIN DerivedForcings :
                    DerivedForcings[n] = "EverythingForced"
              /\ is_forced(run_context)

\* Under --force-all, tasks that declare Never, Inherit and Always have
\* been prepared one below the other.
C38_Witness ==
    /\ RootForcing = "EverythingForced"
    /\ Len(lineage) = MaxDepth
    /\ { lineage[n][2] : n \in DOMAIN lineage } = ForcingBehaviours
    /\ lineage[1][2] = "Never"
    /\ run_context.forcing = "EverythingForced"

-----------------------------------------------------------------------------
(* Properties of the command-line session: overrides two levels down *)

\* The run got to the entry task with an environment that binds w, on the
\* command line or in the top-level vars.
RootBindsW == ~IsError(call.vars) /\ ~IsError(get(call.vars, KeyW))

\* The frame a raw entry of the task is checked against for an override:
\* the newest of the stacked frames of the environment.
ParentFrame(vs) == vs.stacked_vars[Len(vs.stacked_vars)]

\* An older frame than the parent binds the key to the value.
AncestorBinds(vs, key, value) ==
    \E n \in 1..(Len(vs.stacked_vars) - 1) :
        key \in DOMAIN vs.stacked_vars[n] /\ vs.stacked_vars[n][key] = value

\* C39: a raw entry is overridden by the immediate parent frame only.  The
\* task l, two levels below the entry task, defines w itself: it has the
\* command-line or top-level value of w only when the entry task and the
\* task m between them both define w, which puts the value in the local
\* frame of each; when m does not define w, the value is bound in older
\* frames only and l's own definition is evaluated and shadows it; when m
\* defines w and the entry task does not, l has the value m defined.
C39_ImmediateParentOnly ==
    call.op = "main" /\ RootBindsW =>
        /\ Cardinality(FirstStepOf(TaskL)) = 1
        /\ \A e \in FirstStepOf(TaskL) :
              /\ get(ret.log[e].vars, KeyW)
                   = IF call.mid_vars = None THEN JStr(<<"l">>)
                     ELSE IF call.main_vars = None THEN JStr(<<"m">>)
                     ELSE get(call.vars, KeyW)
              /\ call.mid_vars = None =>
                    /\ KeyW \notin DOMAIN ParentFrame(ret.log[e].vars)
                    /\ AncestorBinds(ret.log[e].vars, KeyW, get(call.vars, KeyW))
                    /\ PrintedBy(e)[2] = Line("stdout", <<"h", " ", "l">>)
              /\ get(ret.log[e].vars, KeyW) = get(call.vars, KeyW) =>
                    \A m \in FirstStepOf(LabelMain) \cup FirstStepOf(TaskM) :
                        get_from_locals(ret.log[m].vars, KeyW) = get(call.vars, KeyW)

\* With --var w=e and an entry task that defines w, but a task m that does
\* not: the entry task prints `h e` and l prints `h l`.
C39_Witness ==
    /\ call.op = "main"
    /\ call.args = << <<"w", "=", "e">> >>
    /\ call.main_vars # None /\ call.mid_vars = None
    /\ \E e \in FirstStepOf(LabelMain) :
          PrintedBy(e)[2] = Line("stdout", <<"h", " ", "e">>)
    /\ \E e \in FirstStepOf(TaskL) :
          /\ PrintedBy(e)[2] = Line("stdout", <<"h", " ", "l">>)
          /\ AncestorBinds(ret.log[e].vars, KeyW, JStr(<<"e">>))

\* With --var w=e and w defined by the entry task and by m, l prints `h e`.
C39_ChainReached ==
    /\ call.op = "main"
    /\ call.args = << <<"w", "=", "e">> >>
    /\ call.main_vars # None /\ call.mid_vars # None
    /\ \E e \in FirstStepOf(TaskL) :
          PrintedBy(e)[2] = Line("stdout", <<"h", " ", "e">>)

====
